---- MODULE Spec2Model ----
(***************************************************************************)
(* A model of sitecap's capture pipeline (main.go, domains.go):            *)
(*   - the request interception policy installed by setupRequestHijacking  *)
(*     (SpecHijack),                                                       *)
(*   - the network event correlator of setupRequestHijacking (SpecNet),    *)
(*   - the console/exception/log collectors (SpecConsole),                 *)
(*   - the sequencing of executeBrowserRequest (SpecExec),                 *)
(*   - the Domain Matcher on single host names (SpecDomain),               *)
(*   - the resize DSL and the geometry of resizeImage, resize.go           *)
(*     (SpecResize),                                                       *)
(*   - adjustViewportForFullHeight (SpecFullHeight),                       *)
(*   - the MCP tool handlers with the context store and the request       *)
(*     store they share (SpecMcp),                                         *)
(*   - the request counters of the HTTP handlers, http.go and metrics.go   *)
(*     (SpecHttp).                                                         *)
(* Strings that the code inspects character by character (URLs, host       *)
(* names, allow-list patterns) are sequences of one-character strings.     *)
(***************************************************************************)
EXTENDS Integers, Sequences, FiniteSets, Bags, TLC

VARIABLES
    hjConfig,       \* the HijackConfig of the page session
    firstRequest,   \* the atomic.Bool of the hijack router (main.go:506)
    hjReq,          \* per intercepted request: handler position, input, resolution
    netQ,           \* events the browser emitted, per network subscription, not yet handled
    netNow,         \* time.Now(), counted in events emitted
    netH,           \* position and locals of each network event handler goroutine
    requestTimes,   \* sync.Map requestID -> start time (main.go:314)
    requestInfo,    \* sync.Map requestID -> CapturedNetworkRequest (main.go:315)
    NetworkRequests,\* result.NetworkRequests, the finalized list
    netHist,        \* history: what was emitted and what the sent handler stored
    conQ,           \* console events emitted, per subscription, not yet handled
    conEmitted,     \* number of console events the browser has emitted
    ConsoleLogs,    \* result.ConsoleLogs
    exConfig,       \* the RequestConfig handed to executeBrowserRequest
    exInput,        \* its url and htmlContent arguments
    exPc,           \* position in executeBrowserRequest
    exBrowser,      \* the browser: connected, deferred close registered, Close() calls
    exExpired,      \* the page's timeout context: armed, deadline passed
    exResponse,     \* the BrowserResponse under construction
    exResult,       \* what the call returned (or that it panicked)
    exHist,         \* history: collaborator calls made, steps that failed
    dmHost,         \* Domain Matcher: the host name of the request URL
    dmPort,         \* whether the URL carries a port
    dmPattern,      \* the single pattern of the allow-list
    dmResult,       \* what isDomainWhitelisted returned, once called
    rzSpec,         \* the resize string handed to parseResizeString
    rzSource,       \* width and height of the decoded screenshot
    rzPc,           \* position: parse, transform, done
    rzParsed,       \* what parseResizeString returned
    rzPlan,         \* what resizeImage did to the image and returned
    fhConfig,       \* the RequestConfig the planner reads and writes back
    fhMetrics,      \* the page's layout metrics (Page.getLayoutMetrics)
    fhActive,       \* the viewport override active on the page
    fhCalls,        \* history: one entry per call of the planner
    mcpFlags,       \* the global CLI flags the MCP server was started with
    mcpHeap,        \* the BrowserContextConfig objects allocated so far
    mcpContexts,    \* configManager.contexts: name -> pointer into mcpHeap
    mcpLock,        \* configManager.mutex: 0, or the call holding the write lock
    mcpRequests,    \* requestManager.requests: ID -> StoredRequest
    mcpCalls,       \* the tool calls made: arguments, position, locals
    mcpHist,        \* history: per object, the versions of its settings
    httpMetrics,    \* the counters of the HTTP server, metrics (metrics.go:12-19)
    httpReq         \* per HTTP request: its input, handler position, result

hijackVars == <<hjConfig, firstRequest, hjReq>>

netVars == <<netQ, netNow, netH, requestTimes, requestInfo, NetworkRequests, netHist>>

conVars == <<conQ, conEmitted, ConsoleLogs>>

exVars == <<exConfig, exInput, exPc, exBrowser, exExpired, exResponse, exResult, exHist>>

dmVars == <<dmHost, dmPort, dmPattern, dmResult>>

rzVars == <<rzSpec, rzSource, rzPc, rzParsed, rzPlan>>

fhVars == <<fhConfig, fhMetrics, fhActive, fhCalls>>

mcpVars == <<mcpFlags, mcpHeap, mcpContexts, mcpLock, mcpRequests, mcpCalls, mcpHist>>

httpVars == <<httpMetrics, httpReq>>

vars == <<hjConfig, firstRequest, hjReq,
          netQ, netNow, netH, requestTimes, requestInfo, NetworkRequests, netHist,
          conQ, conEmitted, ConsoleLogs,
          exConfig, exInput, exPc, exBrowser, exExpired, exResponse, exResult, exHist,
          dmHost, dmPort, dmPattern, dmResult,
          rzSpec, rzSource, rzPc, rzParsed, rzPlan,
          fhConfig, fhMetrics, fhActive, fhCalls,
          mcpFlags, mcpHeap, mcpContexts, mcpLock, mcpRequests, mcpCalls, mcpHist,
          httpMetrics, httpReq>>

\* What the steps of one component leave alone: the other components.
HijackFrame == UNCHANGED <<netVars, conVars, exVars, dmVars, rzVars, fhVars, mcpVars, httpVars>>

NetFrame == UNCHANGED <<hijackVars, conVars, exVars, dmVars, rzVars, fhVars, mcpVars, httpVars>>

ConsoleFrame == UNCHANGED <<hijackVars, netVars, exVars, dmVars, rzVars, fhVars, mcpVars, httpVars>>

ExecFrame == UNCHANGED <<hijackVars, netVars, conVars, dmVars, rzVars, fhVars, mcpVars, httpVars>>

DomainFrame == UNCHANGED <<hijackVars, netVars, conVars, exVars, rzVars, fhVars, mcpVars, httpVars>>

ResizeFrame == UNCHANGED <<hijackVars, netVars, conVars, exVars, dmVars, fhVars, mcpVars, httpVars>>

FullHeightFrame == UNCHANGED <<hijackVars, netVars, conVars, exVars, dmVars, rzVars, mcpVars, httpVars>>

McpFrame == UNCHANGED <<hijackVars, netVars, conVars, exVars, dmVars, rzVars, fhVars, httpVars>>

HttpFrame ==
    UNCHANGED <<hijackVars, netVars, conVars, exVars, dmVars, rzVars, fhVars, mcpVars>>

EmptyMap == [x \in {} |-> x]

\* A nil pointer or slice, and a value behind a non-nil one.
Unset == [set |-> FALSE]

SetTo(v) == [set |-> TRUE, val |-> v]

\* All strings over an alphabet up to a length.
StringsUpTo(alphabet, n) == UNION {[1..k -> alphabet] : k \in 0..n}

Range(f) == {f[x] : x \in DOMAIN f}

(***************************************************************************)
(* Bounds of the model.                                                    *)
(***************************************************************************)
MaxRequests == 2
MaxNetEvents == 3
MaxConsoleEvents == 3
MaxHostLen == 3
MaxSuffixLen == 2
MaxSpecLen == 3
MaxPlannerCalls == 2
MaxCalls == 3
MaxInFlight == 2

(***************************************************************************)
(* Domain Matcher (domains.go).                                            *)
(***************************************************************************)

\* The first index at or after i where sub occurs in s, 0 when there is none.
RECURSIVE IndexFrom(_, _, _)
IndexFrom(s, sub, i) ==
    IF i + Len(sub) - 1 > Len(s) THEN 0
    ELSE IF SubSeq(s, i, i + Len(sub) - 1) = sub THEN i
    ELSE IndexFrom(s, sub, i + 1)

\* The last index where the character c occurs in s, 0 when there is none.
LastIndexOf(s, c) ==
    LET I == {i \in DOMAIN s : s[i] = c}
    IN  IF I = {} THEN 0 ELSE CHOOSE i \in I : \A j \in I : j <= i

HasPrefix(s, p) == Len(s) >= Len(p) /\ SubSeq(s, 1, Len(p)) = p

HasSuffix(s, p) == Len(s) >= Len(p) /\ SubSeq(s, Len(s) - Len(p) + 1, Len(s)) = p

TrimPrefix(s, p) == IF HasPrefix(s, p) THEN SubSeq(s, Len(p) + 1, Len(s)) ELSE s

\* url.Parse followed by URL.Hostname(): the parse fails on a control
\* character (written "CTL"); the authority is what stands between "://" and
\* the next "/"; Hostname() drops a trailing ":port".
UrlParse(u) ==
    IF \E i \in DOMAIN u : u[i] = "CTL" THEN [err |-> TRUE, hostname |-> <<>>]
    ELSE LET sep   == IndexFrom(u, <<":", "/", "/">>, 1)
             rest  == IF sep = 0 THEN <<>> ELSE SubSeq(u, sep + 3, Len(u))
             slash == IndexFrom(rest, <<"/">>, 1)
             auth  == IF slash = 0 THEN rest ELSE SubSeq(rest, 1, slash - 1)
             colon == LastIndexOf(auth, ":")
             host  == IF colon = 0 THEN auth ELSE SubSeq(auth, 1, colon - 1)
         IN  [err |-> FALSE, hostname |-> host]

\* filepath.Match reports ErrBadPattern for a malformed pattern: a character
\* class "[" that is never closed.
BadPattern(p) ==
    \E i \in DOMAIN p : p[i] = "[" /\ ~\E j \in DOMAIN p : j > i + 1 /\ p[j] = "]"

\* Shell glob over the whole name: "*" matches any run of non-separator
\* characters, "?" one non-separator character, anything else itself.
RECURSIVE GlobMatch(_, _)
GlobMatch(p, s) ==
    IF p = <<>> THEN s = <<>>
    ELSE IF Head(p) = "*"
         THEN \E k \in 0..Len(s) :
                 /\ \A i \in 1..k : s[i] # "/"
                 /\ GlobMatch(Tail(p), SubSeq(s, k + 1, Len(s)))
    ELSE IF Head(p) = "?"
         THEN s # <<>> /\ Head(s) # "/" /\ GlobMatch(Tail(p), Tail(s))
    ELSE s # <<>> /\ Head(s) = Head(p) /\ GlobMatch(Tail(p), Tail(s))

\* A matcher for which "*." may also match nothing at all.
FilepathMatchBare(pattern, name) ==
    IF BadPattern(pattern) THEN [err |-> TRUE, matched |-> FALSE]
    ELSE [err |-> FALSE,
          matched |-> GlobMatch(pattern, name) \/ pattern = <<"*", ".">> \o name]

FilepathMatch(pattern, name) ==
    IF BadPattern(pattern) THEN [err |-> TRUE, matched |-> FALSE]
    ELSE [err |-> FALSE, matched |-> GlobMatch(pattern, name)]

\* The loop body without its leading-dot test.
PatternAllowsGlobOnly(pattern, hostname) ==
    LET m == FilepathMatch(pattern, hostname)
    IN  ~m.err /\ m.matched

\* One iteration of the loop of isDomainWhitelisted: does this pattern let
\* the hostname through?  A pattern filepath.Match rejects is skipped whole.
PatternAllows(pattern, hostname) ==
    LET m == FilepathMatch(pattern, hostname)
    IN  IF m.err THEN FALSE
        ELSE IF m.matched THEN TRUE
        ELSE /\ HasPrefix(pattern, <<".">>)
             /\ \/ HasSuffix(hostname, pattern)
                \/ hostname = TrimPrefix(pattern, <<".">>)

isDomainWhitelisted(requestURL, whitelist) ==
    IF Len(whitelist) = 0 THEN TRUE
    ELSE LET parsed == UrlParse(requestURL)
         IN  IF parsed.err THEN FALSE
             ELSE \E i \in DOMAIN whitelist : PatternAllows(whitelist[i], parsed.hostname)

(***************************************************************************)
(* Inputs of the interception policy.                                      *)
(***************************************************************************)
UrlA    == <<"h", "t", "t", "p", ":", "/", "/", "a", ".", "i", "o", "/">>
UrlSub  == <<"h", "t", "t", "p", ":", "/", "/", "b", ".", "a", ".", "i", "o", ":", "8", "0", "/", "x">>
UrlEvil == <<"h", "t", "t", "p", ":", "/", "/", "e", "v", "i", "l", ".", "c", "o", "m", "/">>

RequestURLs == {UrlA, UrlSub, UrlEvil}

PatA    == <<"a", ".", "i", "o">>
PatStar == <<"*", ".", "a", ".", "i", "o">>
PatBad  == <<"a", "[">>

Whitelists == {<<>>, <<PatA>>, <<PatBad, PatStar>>}

\* http.Header of the paused request: name -> list of values.
RequestHeaders ==
    { ("User-Agent" :> <<"chrome">>),
      ("user-agent" :> <<"custom">>) @@ ("Accept" :> <<"html", "xml">>) }

\* HijackConfig.CustomHeaders: name -> value.
CustomHeaderSets ==
    { EmptyMap,
      ("User-Agent" :> "custom"),
      ("user-agent" :> "custom") @@ ("X-Token" :> "secret") }

\* strings.ToLower on the header names of the model.
Lower(name) ==
    CASE name = "User-Agent" -> "user-agent"
      [] name = "Accept"     -> "accept"
      [] name = "X-Token"    -> "x-token"
      [] OTHER               -> name

\* The capture targets executeBrowserRequest is called with: a URL, or
\* inline HTML with an empty url (main.go:846, help.go:540).
MainURLs == {"", "http://a.io/"}

\* The fields of the RequestConfig that reach the interception policy.
HijackRequestConfigs ==
    { c \in [ DomainWhitelist : Whitelists,
              CustomHeaders   : CustomHeaderSets,
              Debug           : BOOLEAN,
              CaptureNetwork  : BOOLEAN ] : ~(c.Debug /\ c.CaptureNetwork) }

\* A session set up with the exemption whatever the capture target.
HijackConfigPermitting(url, config) ==
    [MainURL            |-> url,
     DomainWhitelist    |-> config.DomainWhitelist,
     CustomHeaders      |-> config.CustomHeaders,
     Debug              |-> config.Debug,
     PermitFirstRequest |-> TRUE,
     CaptureNetwork     |-> config.CaptureNetwork]

\* main.go:642-650, the HijackConfig executeBrowserRequest builds.
HijackConfigOf(url, config) ==
    [MainURL            |-> url,
     DomainWhitelist    |-> config.DomainWhitelist,
     CustomHeaders      |-> config.CustomHeaders,
     Debug              |-> config.Debug,
     PermitFirstRequest |-> url # "",
     CaptureNetwork     |-> config.CaptureNetwork]

HijackConfigs == {HijackConfigOf(url, c) : url \in MainURLs, c \in HijackRequestConfigs}

Reqs == 1..MaxRequests

NoOutcome == [kind |-> "none"]

\* calls counts the ContinueRequest and Response.Fail calls of the handler.
NotPaused == [pc |-> "none", url |-> <<>>, header |-> EmptyMap,
              first |-> FALSE, outcome |-> NoOutcome, calls |-> 0]

(***************************************************************************)
(* Interception policy (main.go:504-619).                                  *)
(***************************************************************************)

\* The router is only installed when one of its uses is configured.
RouterInstalled(config) ==
    \/ config.Debug
    \/ Len(config.DomainWhitelist) > 0
    \/ config.CustomHeaders # EmptyMap
    \/ config.CaptureNetwork

\* The entries the handler collects from the request's own headers:
\* one FetchHeaderEntry per (name, value), as a bag.
ExistingEntries(header) ==
    LET E == UNION {{<<n, header[n][i]>> : i \in DOMAIN header[n]} : n \in DOMAIN header}
    IN  [e \in E |-> Cardinality({i \in DOMAIN header[e[1]] : header[e[1]][i] = e[2]})]

CustomEntries(custom) == SetToBag({<<k, custom[k]>> : k \in DOMAIN custom})

\* "First add existing headers ... then add custom headers": the list handed
\* to ContinueRequest (its order follows Go's map iteration; kept as a bag).
BuildHeaders(header, custom) == ExistingEntries(header) (+) CustomEntries(custom)

\* ctx.ContinueRequest: with a Headers list when custom headers are
\* configured, with an empty FetchContinueRequest otherwise.
ContinueWith(header, custom) ==
    IF custom # EmptyMap
    THEN [kind |-> "continue", setHeaders |-> TRUE, headers |-> BuildHeaders(header, custom)]
    ELSE [kind |-> "continue", setHeaders |-> FALSE, headers |-> EmptyBag]

FailBlocked == [kind |-> "fail", reason |-> "BlockedByClient"]

\* A plain test of the flag that never stores the new value.
CompareNoSwap(cur, old, new) == [swapped |-> cur = old, val |-> cur]

\* atomic.Bool.CompareAndSwap(old, new) on a flag holding cur.
CompareAndSwap(cur, old, new) ==
    [swapped |-> cur = old, val |-> IF cur = old THEN new ELSE cur]

\* A filter that lets every request through while debugging.
FilterDecisionUnlessDebug(config, url, header) ==
    IF Len(config.DomainWhitelist) > 0 /\ ~config.Debug
    THEN IF isDomainWhitelisted(url, config.DomainWhitelist)
         THEN ContinueWith(header, config.CustomHeaders)
         ELSE FailBlocked
    ELSE ContinueWith(header, config.CustomHeaders)

\* A filter with the two branches of the allow-list test exchanged.
FilterDecisionInverted(config, url, header) ==
    IF Len(config.DomainWhitelist) > 0
    THEN IF isDomainWhitelisted(url, config.DomainWhitelist)
         THEN FailBlocked
         ELSE ContinueWith(header, config.CustomHeaders)
    ELSE ContinueWith(header, config.CustomHeaders)

\* main.go:553-616, the decision for a request that is not first-exempt.
FilterDecision(config, url, header) ==
    IF Len(config.DomainWhitelist) > 0
    THEN IF isDomainWhitelisted(url, config.DomainWhitelist)
         THEN ContinueWith(header, config.CustomHeaders)
         ELSE FailBlocked
    ELSE ContinueWith(header, config.CustomHeaders)

HijackStart ==
    /\ hjConfig \in HijackConfigs
    /\ firstRequest = TRUE
    /\ hjReq = [r \in Reqs |-> NotPaused]

\* The interception policy is not part of the behaviours of the other
\* specifications.
HijackOff ==
    /\ hjConfig = [MainURL |-> "", PermitFirstRequest |-> FALSE, DomainWhitelist |-> <<>>,
                   CustomHeaders |-> EmptyMap, Debug |-> FALSE, CaptureNetwork |-> FALSE]
    /\ firstRequest = TRUE
    /\ hjReq = [r \in Reqs |-> NotPaused]

\* The browser pauses a request; rod starts the handler in its own goroutine.
HijackDeliver(r) ==
    /\ RouterInstalled(hjConfig)
    /\ hjReq[r].pc = "none"
    /\ \A q \in Reqs : q < r => hjReq[q].pc # "none"
    /\ \E u \in RequestURLs, h \in RequestHeaders :
          hjReq' = [hjReq EXCEPT ![r] = [@ EXCEPT !.pc = "paused", !.url = u, !.header = h]]
    /\ UNCHANGED <<hjConfig, firstRequest>>
    /\ HijackFrame

\* main.go:517, config.PermitFirstRequest && firstRequest.CompareAndSwap(true, false).
HijackDecide(r) ==
    /\ hjReq[r].pc = "paused"
    /\ IF hjConfig.PermitFirstRequest
       THEN LET cas == CompareAndSwap(firstRequest, TRUE, FALSE)
            IN  /\ firstRequest' = cas.val
                /\ hjReq' = [hjReq EXCEPT ![r] =
                       [@ EXCEPT !.pc = IF cas.swapped THEN "first" ELSE "filter",
                                 !.first = cas.swapped]]
       ELSE /\ firstRequest' = firstRequest
            /\ hjReq' = [hjReq EXCEPT ![r] = [@ EXCEPT !.pc = "filter"]]
    /\ UNCHANGED hjConfig
    /\ HijackFrame

\* A first-request path that still applies the allow-list.
HijackFirstRequestFiltered(r) ==
    /\ hjReq[r].pc = "first"
    /\ hjReq' = [hjReq EXCEPT ![r] =
           [@ EXCEPT !.pc = "done", !.calls = @ + 1,
                     !.outcome = FilterDecision(hjConfig, hjReq[r].url, hjReq[r].header)]]
    /\ UNCHANGED <<hjConfig, firstRequest>>
    /\ HijackFrame

\* main.go:518-550, the first-request path.
HijackFirstRequest(r) ==
    /\ hjReq[r].pc = "first"
    /\ hjReq' = [hjReq EXCEPT ![r] =
           [@ EXCEPT !.pc = "done", !.calls = @ + 1,
                     !.outcome = ContinueWith(hjReq[r].header, hjConfig.CustomHeaders)]]
    /\ UNCHANGED <<hjConfig, firstRequest>>
    /\ HijackFrame

\* A handler that logs a blocked request and returns without failing it.
HijackFilterLogsBlocked(r) ==
    /\ hjReq[r].pc = "filter"
    /\ LET decision == FilterDecision(hjConfig, hjReq[r].url, hjReq[r].header)
       IN  hjReq' = [hjReq EXCEPT ![r] =
               IF decision = FailBlocked
               THEN [@ EXCEPT !.pc = "done"]
               ELSE [@ EXCEPT !.pc = "done", !.calls = @ + 1, !.outcome = decision]]
    /\ UNCHANGED <<hjConfig, firstRequest>>
    /\ HijackFrame

\* main.go:553-616, domain filtering or plain continue.
HijackFilter(r) ==
    /\ hjReq[r].pc = "filter"
    /\ hjReq' = [hjReq EXCEPT ![r] =
           [@ EXCEPT !.pc = "done", !.calls = @ + 1,
                     !.outcome = FilterDecision(hjConfig, hjReq[r].url, hjReq[r].header)]]
    /\ UNCHANGED <<hjConfig, firstRequest>>
    /\ HijackFrame

(***************************************************************************)
(* Network event correlator (main.go:312-383).  Each page.EachEvent runs   *)
(* in a goroutine of its own with its own subscription, so the three       *)
(* handlers take their events independently of one another; each sync.Map  *)
(* operation, the Lock and the append with its Unlock is one atomic step.  *)
(***************************************************************************)
NetIds == {1, 2}

NetUrls == {"/page"}

Handlers == {"sent", "resp", "fail"}

Completers == {"resp", "fail"}

NoEvent == [type |-> "none"]

NoRecord == [id |-> 0]

IdleHandler == [pc |-> "idle", ev |-> NoEvent, req |-> NoRecord, start |-> 0]

\* The orchestrator has not yet taken the list for its response.
NotRead == [taken |-> FALSE, list |-> <<>>, appending |-> {}]

NetStart ==
    /\ netQ = [h \in Handlers |-> <<>>]
    /\ netNow = 0
    /\ netH = [h \in Handlers |-> IdleHandler]
    /\ requestTimes = EmptyMap
    /\ requestInfo = EmptyMap
    /\ NetworkRequests = <<>>
    /\ netHist = [sent |-> [i \in NetIds |-> 0], done |-> {}, stored |-> {},
                  read |-> NotRead]

\* The correlator is not part of the behaviours of the other specifications.
NetOff == NetStart

\* sync.Map.Store and sync.Map.Delete.
Store(m, k, v) == [x \in DOMAIN m \cup {k} |-> IF x = k THEN v ELSE m[x]]

Delete(m, k) == [x \in DOMAIN m \ {k} |-> m[x]]

\* The browser emits a request-sent event.  A request identifier is reused
\* only by the redirect hops of one request, which precede its completion.
EmitSent(id) ==
    /\ netNow < MaxNetEvents
    /\ id \notin netHist.done
    /\ \E u \in NetUrls :
          netQ' = [netQ EXCEPT !["sent"] = Append(@, [type |-> "sent", id |-> id, url |-> u])]
    /\ netNow' = netNow + 1
    /\ netHist' = [netHist EXCEPT !.sent[id] = @ + 1]
    /\ UNCHANGED <<netH, requestTimes, requestInfo, NetworkRequests>>
    /\ NetFrame

\* The browser emits a response-received event.
EmitResponse(id) ==
    /\ netNow < MaxNetEvents
    /\ \E st \in {200} :
          netQ' = [netQ EXCEPT !["resp"] = Append(@, [type |-> "resp", id |-> id, status |-> st])]
    /\ netNow' = netNow + 1
    /\ netHist' = [netHist EXCEPT !.done = @ \cup {id}]
    /\ UNCHANGED <<netH, requestTimes, requestInfo, NetworkRequests>>
    /\ NetFrame

\* The browser emits a load-failed event.
EmitFailed(id) ==
    /\ netNow < MaxNetEvents
    /\ netQ' = [netQ EXCEPT !["fail"] =
                   Append(@, [type |-> "fail", id |-> id, errorText |-> "net::ERR_FAILED"])]
    /\ netNow' = netNow + 1
    /\ netHist' = [netHist EXCEPT !.done = @ \cup {id}]
    /\ UNCHANGED <<netH, requestTimes, requestInfo, NetworkRequests>>
    /\ NetFrame

\* main.go:319-320, the request-sent handler takes its next event and
\* stores the start time.
SentStoreTime ==
    /\ netH["sent"].pc = "idle"
    /\ netQ["sent"] # <<>>
    /\ LET e == Head(netQ["sent"])
       IN  /\ requestTimes' = Store(requestTimes, e.id, netNow)
           /\ netH' = [netH EXCEPT !["sent"] = [@ EXCEPT !.pc = "storeInfo", !.ev = e]]
    /\ netQ' = [netQ EXCEPT !["sent"] = Tail(@)]
    /\ UNCHANGED <<netNow, requestInfo, NetworkRequests, netHist>>
    /\ NetFrame

\* The record the request-sent handler builds (the id is kept for the
\* properties; CapturedNetworkRequest itself has no such field).
NewRecord(e, now) ==
    [id |-> e.id, url |-> e.url, timestamp |-> now,
     status |-> 0, failed |-> FALSE, errorText |-> "", duration |-> 0]

\* main.go:328-333, requestInfo.Store.
SentStoreInfo ==
    /\ netH["sent"].pc = "storeInfo"
    /\ LET rec == NewRecord(netH["sent"].ev, netNow)
       IN  /\ requestInfo' = Store(requestInfo, rec.id, rec)
           /\ netHist' = [netHist EXCEPT !.stored = @ \cup {rec}]
    /\ netH' = [netH EXCEPT !["sent"] = IdleHandler]
    /\ UNCHANGED <<netQ, netNow, requestTimes, NetworkRequests>>
    /\ NetFrame

\* A lookup that proceeds to finalize whether or not a record was found.
AfterLoadInfoUnchecked(h, e) ==
    [pc |-> "append", ev |-> e,
     req |-> IF e.id \in DOMAIN requestInfo THEN requestInfo[e.id]
             ELSE [id |-> e.id, url |-> "", timestamp |-> 0, status |-> 0,
                   failed |-> FALSE, errorText |-> "", duration |-> 0],
     start |-> 0]

\* Where a completion handler goes after requestInfo.Load(requestID).
AfterLoadInfo(h, e) ==
    IF e.id \in DOMAIN requestInfo
    THEN [pc |-> "loadTime", ev |-> e, req |-> requestInfo[e.id], start |-> 0]
    ELSE IdleHandler

\* main.go:339 / 366, a completion handler takes its next event and looks
\* the request up; without a record the event is dropped.
LoadInfo(h) ==
    /\ netH[h].pc = "idle"
    /\ netQ[h] # <<>>
    /\ netH' = [netH EXCEPT ![h] = AfterLoadInfo(h, Head(netQ[h]))]
    /\ netQ' = [netQ EXCEPT ![h] = Tail(@)]
    /\ UNCHANGED <<netNow, requestTimes, requestInfo, NetworkRequests, netHist>>
    /\ NetFrame

\* main.go:340 / 367, requestTimes.Load(requestID).
LoadTime(h) ==
    /\ netH[h].pc = "loadTime"
    /\ netH' = [netH EXCEPT ![h] =
           IF netH[h].ev.id \in DOMAIN requestTimes
           THEN [@ EXCEPT !.pc = "append", !.start = requestTimes[netH[h].ev.id]]
           ELSE IdleHandler]
    /\ UNCHANGED <<netQ, netNow, requestTimes, requestInfo, NetworkRequests, netHist>>
    /\ NetFrame

\* main.go:341-350 and 368-371, the record a completion handler finalizes.
Finalized(h, req, e, start, now) ==
    IF h = "resp"
    THEN [req EXCEPT !.status = e.status, !.duration = now - start]
    ELSE [req EXCEPT !.failed = TRUE, !.errorText = e.errorText, !.duration = now - start]

\* main.go:352 / 373, networkRequestsMutex.Lock(): one handler at a time.
LockRecords(h) ==
    /\ netH[h].pc = "append"
    /\ \A g \in Completers : netH[g].pc # "locked"
    /\ netH' = [netH EXCEPT ![h] = [@ EXCEPT !.pc = "locked"]]
    /\ UNCHANGED <<netQ, netNow, requestTimes, requestInfo, NetworkRequests, netHist>>
    /\ NetFrame

\* main.go:353-354 / 374-375, the append and networkRequestsMutex.Unlock().
AppendRecord(h) ==
    /\ netH[h].pc = "locked"
    /\ NetworkRequests' = Append(NetworkRequests,
           Finalized(h, netH[h].req, netH[h].ev, netH[h].start, netNow))
    /\ netH' = [netH EXCEPT ![h] = [@ EXCEPT !.pc = "deleteInfo"]]
    /\ UNCHANGED <<netQ, netNow, requestTimes, requestInfo, netHist>>
    /\ NetFrame

\* main.go:754-756, executeBrowserRequest copies hijackResult.NetworkRequests
\* into its response.  The mutex is a local of setupRequestHijacking, so the
\* read takes no lock and waits for no handler; a read that comes while a
\* handler is inside its append sees the list before or after that append.
ReadNetworkRequests ==
    /\ ~netHist.read.taken
    /\ LET appending == {h \in Completers : netH[h].pc = "locked"}
       IN  \E list \in {NetworkRequests} \cup
                        {Append(NetworkRequests,
                                Finalized(h, netH[h].req, netH[h].ev, netH[h].start, netNow)) :
                         h \in appending} :
              netHist' = [netHist EXCEPT !.read =
                             [taken |-> TRUE, list |-> list, appending |-> appending]]
    /\ UNCHANGED <<netQ, netNow, netH, requestTimes, requestInfo, NetworkRequests>>
    /\ NetFrame

\* main.go:357 / 378, requestInfo.Delete.
DeleteInfo(h) ==
    /\ netH[h].pc = "deleteInfo"
    /\ requestInfo' = Delete(requestInfo, netH[h].ev.id)
    /\ netH' = [netH EXCEPT ![h] = [@ EXCEPT !.pc = "deleteTime"]]
    /\ UNCHANGED <<netQ, netNow, requestTimes, NetworkRequests, netHist>>
    /\ NetFrame

\* main.go:358 / 379, requestTimes.Delete; the handler returns.
DeleteTime(h) ==
    /\ netH[h].pc = "deleteTime"
    /\ requestTimes' = Delete(requestTimes, netH[h].ev.id)
    /\ netH' = [netH EXCEPT ![h] = IdleHandler]
    /\ UNCHANGED <<netQ, netNow, requestInfo, NetworkRequests, netHist>>
    /\ NetFrame

(***************************************************************************)
(* Console collectors (main.go:385-502): three subscriptions, each handled *)
(* in a goroutine of its own; every append happens under consoleLogsMutex. *)
(***************************************************************************)
Streams == {"api", "exception", "log"}

\* RuntimeConsoleAPICalled events: type, args (Description, the JSON bytes of
\* the value with its double quotes written "QUOTE"), first call frame if any.
NoFrame == [present |-> FALSE]

Frame == [present |-> TRUE, URL |-> "app.js", LineNumber |-> 7, ColumnNumber |-> 3]

ArgText == [Description |-> "Error: boom", json |-> <<"{", "}">>, Type |-> "object"]

ArgString == [Description |-> "", json |-> <<"QUOTE", "hello", "QUOTE">>, Type |-> "string"]

ArgNumber == [Description |-> "", json |-> <<"42">>, Type |-> "number"]

ApiEvents ==
    { [Type |-> "log",     Args |-> <<>>,                     StackTrace |-> NoFrame],
      [Type |-> "warning", Args |-> <<ArgString>>,            StackTrace |-> Frame],
      [Type |-> "error",   Args |-> <<ArgText, ArgNumber>>,   StackTrace |-> NoFrame] }

\* RuntimeExceptionThrown events: ExceptionDetails may be nil, and its
\* Exception object may carry a description.
ExceptionEvents ==
    { [details |-> FALSE],
      [details |-> TRUE, Text |-> "Uncaught", URL |-> "app.js", LineNumber |-> 1,
       ColumnNumber |-> 2, Description |-> "TypeError: x is undefined"],
      [details |-> TRUE, Text |-> "", URL |-> "", LineNumber |-> 0,
       ColumnNumber |-> 0, Description |-> ""] }

\* LogEntryAdded events: Entry may be nil; LineNumber is optional.
LogEvents ==
    { [entry |-> FALSE],
      [entry |-> TRUE, Level |-> "warning", Text |-> "deprecated", URL |-> "lib.js",
       hasLine |-> TRUE, LineNumber |-> 9] }

\* strings.Trim(s, "\""): the leading and trailing quotes removed.
RECURSIVE TrimQuotes(_)
TrimQuotes(j) ==
    IF j = <<>> THEN j
    ELSE IF Head(j) = "QUOTE" THEN TrimQuotes(Tail(j))
    ELSE IF j[Len(j)] = "QUOTE" THEN TrimQuotes(SubSeq(j, 1, Len(j) - 1))
    ELSE j

\* main.go:395-410, one console argument as a string.
ArgToString(arg) ==
    IF arg.Description # "" THEN <<arg.Description>>
    ELSE IF Len(arg.json) > 0
         THEN IF Head(arg.json) = "QUOTE" /\ arg.json[Len(arg.json)] = "QUOTE"
              THEN TrimQuotes(arg.json)
              ELSE arg.json
    ELSE <<"[", arg.Type, "]">>

\* main.go:412-420, the arguments joined with single spaces.
RECURSIVE JoinArgs(_)
JoinArgs(args) ==
    IF args = <<>> THEN <<>>
    ELSE IF Len(args) = 1 THEN ArgToString(args[1])
    ELSE ArgToString(args[1]) \o <<" ">> \o JoinArgs(Tail(args))

\* The CapturedConsoleLog of each handler (n, the event's place in the
\* browser's emission order, is kept for the properties only).
ApiRecord(e, n) ==
    [n |-> n, Level |-> e.Type, Message |-> JoinArgs(e.Args),
     Source |-> IF e.StackTrace.present THEN e.StackTrace.URL ELSE "",
     Line   |-> IF e.StackTrace.present THEN e.StackTrace.LineNumber ELSE 0,
     Column |-> IF e.StackTrace.present THEN e.StackTrace.ColumnNumber ELSE 0]

ExceptionRecord(e, n) ==
    [n |-> n, Level |-> "error",
     Message |-> IF ~e.details THEN <<"JavaScript Exception">>
                 ELSE IF e.Description # "" THEN <<e.Description>>
                 ELSE IF e.Text # "" THEN <<e.Text>>
                 ELSE <<"JavaScript Exception">>,
     Source |-> IF e.details THEN e.URL ELSE "",
     Line   |-> IF e.details THEN e.LineNumber ELSE 0,
     Column |-> IF e.details THEN e.ColumnNumber ELSE 0]

LogRecord(e, n) ==
    [n |-> n, Level |-> e.Level, Message |-> <<e.Text>>, Source |-> e.URL,
     Line |-> IF e.hasLine THEN e.LineNumber ELSE 0, Column |-> 0]

ConsoleStart ==
    /\ conQ = [st \in Streams |-> <<>>]
    /\ conEmitted = 0
    /\ ConsoleLogs = <<>>

ConsoleOff == ConsoleStart

\* The browser emits a console event on one of the three streams.
EmitConsoleAPI ==
    /\ conEmitted < MaxConsoleEvents
    /\ \E e \in ApiEvents :
          conQ' = [conQ EXCEPT !["api"] = Append(@, [n |-> conEmitted + 1, e |-> e])]
    /\ conEmitted' = conEmitted + 1
    /\ UNCHANGED ConsoleLogs
    /\ ConsoleFrame

EmitException ==
    /\ conEmitted < MaxConsoleEvents
    /\ \E e \in ExceptionEvents :
          conQ' = [conQ EXCEPT !["exception"] = Append(@, [n |-> conEmitted + 1, e |-> e])]
    /\ conEmitted' = conEmitted + 1
    /\ UNCHANGED ConsoleLogs
    /\ ConsoleFrame

EmitLogEntry ==
    /\ conEmitted < MaxConsoleEvents
    /\ \E e \in LogEvents :
          conQ' = [conQ EXCEPT !["log"] = Append(@, [n |-> conEmitted + 1, e |-> e])]
    /\ conEmitted' = conEmitted + 1
    /\ UNCHANGED ConsoleLogs
    /\ ConsoleFrame

\* main.go:389-440.
HandleConsoleAPI ==
    /\ conQ["api"] # <<>>
    /\ ConsoleLogs' = Append(ConsoleLogs, ApiRecord(Head(conQ["api"]).e, Head(conQ["api"]).n))
    /\ conQ' = [conQ EXCEPT !["api"] = Tail(@)]
    /\ UNCHANGED conEmitted
    /\ ConsoleFrame

\* main.go:443-477.
HandleException ==
    /\ conQ["exception"] # <<>>
    /\ ConsoleLogs' = Append(ConsoleLogs,
           ExceptionRecord(Head(conQ["exception"]).e, Head(conQ["exception"]).n))
    /\ conQ' = [conQ EXCEPT !["exception"] = Tail(@)]
    /\ UNCHANGED conEmitted
    /\ ConsoleFrame

\* main.go:480-501: an event without an Entry is skipped.
HandleLogEntry ==
    /\ conQ["log"] # <<>>
    /\ ConsoleLogs' = IF Head(conQ["log"]).e.entry
                      THEN Append(ConsoleLogs, LogRecord(Head(conQ["log"]).e, Head(conQ["log"]).n))
                      ELSE ConsoleLogs
    /\ conQ' = [conQ EXCEPT !["log"] = Tail(@)]
    /\ UNCHANGED conEmitted
    /\ ConsoleFrame

(***************************************************************************)
(* The Domain Matcher called on one host name with a one-pattern           *)
(* allow-list (domains.go:55-86).                                          *)
(***************************************************************************)
HostAlphabet == {"a", "b", "."}

HostNames == StringsUpTo(HostAlphabet, MaxHostLen)

Suffixes == StringsUpTo(HostAlphabet, MaxSuffixLen)

StarPattern(suffix) == <<"*", ".">> \o suffix

DotPattern(domain) == <<".">> \o domain

DomainPatterns == {StarPattern(x) : x \in Suffixes} \cup {DotPattern(x) : x \in Suffixes}

\* The URL of a request to the host, with or without a port.
HostUrl(host, port) ==
    <<"h", "t", "t", "p", ":", "/", "/">> \o host
        \o (IF port THEN <<":", "8", "0">> ELSE <<>>) \o <<"/", "p">>

DomainStart ==
    /\ dmHost \in HostNames
    /\ dmPort \in BOOLEAN
    /\ dmPattern \in DomainPatterns
    /\ dmResult = Unset

DomainOff ==
    /\ dmHost = <<>>
    /\ dmPort = FALSE
    /\ dmPattern = <<>>
    /\ dmResult = SetTo(TRUE)

\* The interception handler asks the matcher (main.go:555).
DomainCheck ==
    /\ ~dmResult.set
    /\ dmResult' = SetTo(isDomainWhitelisted(HostUrl(dmHost, dmPort), <<dmPattern>>))
    /\ UNCHANGED <<dmHost, dmPort, dmPattern>>
    /\ DomainFrame

(***************************************************************************)
(* The resize DSL (resize.go:41-119) and the geometry of resizeImage       *)
(* (resize.go:172-257).  A resize string is a sequence of characters.      *)
(* Ratios are float64 quotients of two ints in the code; here they are     *)
(* exact fractions num/den with den > 0, which order the same way for the  *)
(* image sizes at hand.                                                    *)
(***************************************************************************)
Contains(s, c) == \E i \in DOMAIN s : s[i] = c

\* strings.ReplaceAll(s, c, "").
ReplaceAll(s, c) == SelectSeq(s, LAMBDA ch : ch # c)

\* strings.Split(s, c): one more part than there are separators.
RECURSIVE Split(_, _)
Split(s, c) ==
    LET i == IndexFrom(s, <<c>>, 1)
    IN  IF i = 0 THEN <<s>>
        ELSE <<SubSeq(s, 1, i - 1)>> \o Split(SubSeq(s, i + 1, Len(s)), c)

TrimSuffix(s, p) == IF HasSuffix(s, p) THEN SubSeq(s, 1, Len(s) - Len(p)) ELSE s

DigitValue ==
    ("0" :> 0) @@ ("1" :> 1) @@ ("2" :> 2) @@ ("3" :> 3) @@ ("4" :> 4) @@
    ("5" :> 5) @@ ("6" :> 6) @@ ("7" :> 7) @@ ("8" :> 8) @@ ("9" :> 9)

RECURSIVE DecimalValue(_)
DecimalValue(ds) ==
    IF ds = <<>> THEN 0
    ELSE 10 * DecimalValue(SubSeq(ds, 1, Len(ds) - 1)) + DigitValue[ds[Len(ds)]]

\* strconv.Atoi: an optional sign, then one or more decimal digits.  (The
\* strings at hand are too short to leave the range of int.)
Atoi(s) ==
    LET signed == s # <<>> /\ Head(s) \in {"+", "-"}
        ds     == IF signed THEN Tail(s) ELSE s
    IN  IF ds = <<>> \/ \E i \in DOMAIN ds : ds[i] \notin DOMAIN DigitValue
        THEN [err |-> TRUE, val |-> 0]
        ELSE [err |-> FALSE,
              val |-> IF signed /\ Head(s) = "-" THEN 0 - DecimalValue(ds)
                      ELSE DecimalValue(ds)]

\* &ResizeParams{KeepAspect: true} (resize.go:42-44).
NewResizeParams ==
    [Width |-> 0, Height |-> 0, KeepAspect |-> TRUE, Percentage |-> FALSE,
     AutoCrop |-> FALSE, Crop |-> FALSE, CropOffsetX |-> 0, CropOffsetY |-> 0]

\* "return nil, fmt.Errorf(msg)".
ParseError(msg) == [err |-> msg, params |-> Unset]

\* A choice of separator that knows "+" only.
CropSeparatorPlusOnly(resize) == IF Contains(resize, "+") THEN "+" ELSE ""

\* resize.go:53-58, the separator of the crop offsets: "+", else "_".
CropSeparator(resize) ==
    IF Contains(resize, "+") THEN "+"
    ELSE IF Contains(resize, "_") THEN "_" ELSE ""

\* parseResizeString (resize.go:41-119), in the order of the code: the
\* percent signs, the crop offsets, the "!" suffix, the "#" or "^" suffix,
\* then the two dimensions.
parseResizeString(resize) ==
    LET percentage    == Contains(resize, "%")
        r1            == IF percentage THEN ReplaceAll(resize, "%") ELSE resize
        cropSeparator == CropSeparator(r1)
        crop          == cropSeparator # ""
        parts         == Split(r1, cropSeparator)
        x             == Atoi(parts[2])
        y             == Atoi(parts[3])
        r2            == IF crop THEN parts[1] ELSE r1
        forced        == HasSuffix(r2, <<"!">>)
        r3            == TrimSuffix(r2, <<"!">>)
        autoCrop      == HasSuffix(r3, <<"#">>) \/ HasSuffix(r3, <<"^">>)
        r4            == IF HasSuffix(r3, <<"#">>) THEN TrimSuffix(r3, <<"#">>)
                         ELSE TrimSuffix(r3, <<"^">>)
        dimensions    == Split(r4, "x")
        width         == Atoi(dimensions[1])
        height        == Atoi(dimensions[2])
    IN  IF crop /\ Len(parts) # 3 THEN ParseError("invalid crop offset format")
        ELSE IF crop /\ x.err THEN ParseError("invalid crop offset X")
        ELSE IF crop /\ y.err THEN ParseError("invalid crop offset Y")
        ELSE IF Len(dimensions) # 2 THEN ParseError("invalid resize format")
        ELSE IF dimensions[1] # <<>> /\ width.err THEN ParseError("invalid width")
        ELSE IF dimensions[2] # <<>> /\ height.err THEN ParseError("invalid height")
        ELSE [err |-> "",
              params |-> SetTo(
                 [Width       |-> IF dimensions[1] # <<>> THEN width.val ELSE 0,
                  Height      |-> IF dimensions[2] # <<>> THEN height.val ELSE 0,
                  KeepAspect  |-> ~forced,
                  Percentage  |-> percentage,
                  AutoCrop    |-> autoCrop,
                  Crop        |-> crop,
                  CropOffsetX |-> IF crop THEN x.val ELSE 0,
                  CropOffsetY |-> IF crop THEN y.val ELSE 0])]

\* Go's integer division truncates toward zero.
TruncDiv(a, b) == IF a >= 0 THEN a \div b ELSE 0 - ((0 - a) \div b)

Ratio(n, d) == [num |-> n, den |-> d]

RatioLess(a, b) == a.num * b.den < b.num * a.den

RatioEq(a, b) == a.num * b.den = b.num * a.den

MaxRatio(a, b) == IF RatioLess(a, b) THEN b ELSE a

MinRatio(a, b) == IF RatioLess(b, a) THEN b ELSE a

Positive(r) == r.num > 0

\* image.Resize of libvips: a side of the output is the scaled side of the
\* input rounded to the nearest pixel, and at least one pixel.
VipsScale(side, r) ==
    LET rounded == (2 * side * r.num + r.den) \div (2 * r.den)
    IN  IF rounded < 1 THEN 1 ELSE rounded

\* image.ExtractArea of libvips fails on an area that is empty or leaves
\* the image.
ExtractAreaFails(size, area) ==
    \/ area.left < 0 \/ area.top < 0
    \/ area.width <= 0 \/ area.height <= 0
    \/ area.left + area.width > size.w
    \/ area.top + area.height > size.h

\* What resizeImage returns and what it did to the image on the way.
Transformed(target, scale, crop, size) ==
    [err |-> "", target |-> target, scale |-> scale, crop |-> crop, size |-> size]

TransformError(msg, target, scale) ==
    [err |-> msg, target |-> target, scale |-> scale, crop |-> Unset, size |-> Unset]

\* A target size that is the raw numbers of the spec, percent or not.
TargetSizeRaw(source, params) == [w |-> params.Width, h |-> params.Height]

\* resize.go:203-206, the target size.
TargetSize(source, params) ==
    IF params.Percentage
    THEN [w |-> TruncDiv(source.w * params.Width, 100),
          h |-> TruncDiv(source.h * params.Height, 100)]
    ELSE [w |-> params.Width, h |-> params.Height]

\* A manual crop whose width and height are percentages of the source
\* under the percentage flag.
ManualCropAreaScaled(source, params) ==
    [left |-> params.CropOffsetX, top |-> params.CropOffsetY,
     width  |-> IF params.Percentage THEN TruncDiv(source.w * params.Width, 100)
                ELSE params.Width,
     height |-> IF params.Percentage THEN TruncDiv(source.h * params.Height, 100)
                ELSE params.Height]

\* resize.go:189, the area of a manual crop.
ManualCropArea(source, params) ==
    [left |-> params.CropOffsetX, top |-> params.CropOffsetY,
     width |-> params.Width, height |-> params.Height]

\* A uniform ratio that fits where it should fill and fills where it should fit.
UniformRatioSwapped(source, target, autoCrop) ==
    IF target.w = 0 THEN Ratio(target.h, source.h)
    ELSE IF target.h = 0 THEN Ratio(target.w, source.w)
    ELSE IF autoCrop
         THEN MinRatio(Ratio(target.w, source.w), Ratio(target.h, source.h))
         ELSE MaxRatio(Ratio(target.w, source.w), Ratio(target.h, source.h))

\* resize.go:209-224, the one ratio of both axes when the aspect is kept.
UniformRatio(source, target, autoCrop) ==
    IF target.w = 0 THEN Ratio(target.h, source.h)
    ELSE IF target.h = 0 THEN Ratio(target.w, source.w)
    ELSE IF autoCrop
         THEN MaxRatio(Ratio(target.w, source.w), Ratio(target.h, source.h))
         ELSE MinRatio(Ratio(target.w, source.w), Ratio(target.h, source.h))

\* A forced resize that still keeps the aspect: the width ratio on both axes.
ForcedScaleUniform(source, target) ==
    [h |-> Ratio(target.w, source.w), v |-> Ratio(target.w, source.w)]

\* resize.go:232-238, the two ratios of a forced resize.
ForcedScale(source, target) ==
    [h |-> Ratio(target.w, source.w), v |-> Ratio(target.h, source.h)]

\* resize.go:246-248, the window of the center crop.
CenterCropArea(scaled, params) ==
    [left   |-> TruncDiv(scaled.w - params.Width, 2),
     top    |-> TruncDiv(scaled.h - params.Height, 2),
     width  |-> params.Width,
     height |-> params.Height]

\* resize.go:187-253, from the decoded image to the image that is exported.
resizeImage(source, params) ==
    IF params.Crop
    THEN LET area == ManualCropArea(source, params)
         IN  IF ExtractAreaFails(source, area)
             THEN TransformError("extract_area: bad extract area", Unset, Unset)
             ELSE Transformed(Unset, Unset, SetTo(area),
                              SetTo([w |-> area.width, h |-> area.height]))
    ELSE LET target == TargetSize(source, params)
             scale  == IF params.KeepAspect
                       THEN LET scaleRatio == UniformRatio(source, target, params.AutoCrop)
                            IN  [h |-> scaleRatio, v |-> scaleRatio]
                       ELSE ForcedScale(source, target)
             scaled == [w |-> VipsScale(source.w, scale.h),
                        h |-> VipsScale(source.h, scale.v)]
             area   == CenterCropArea(scaled, params)
         IN  IF ~Positive(scale.h) \/ ~Positive(scale.v)
             THEN TransformError("invalid scale ratio", SetTo(target), SetTo(scale))
             ELSE IF ~params.AutoCrop
             THEN Transformed(SetTo(target), SetTo(scale), Unset, SetTo(scaled))
             ELSE IF ExtractAreaFails(scaled, area)
             THEN TransformError("extract_area: bad extract area", SetTo(target), SetTo(scale))
             ELSE Transformed(SetTo(target), SetTo(scale), SetTo(area),
                              SetTo([w |-> area.width, h |-> area.height]))

\* The strings handed to the parser: every string up to MaxSpecLen over the
\* characters the grammar knows, and the specs built from a width, a
\* height, a policy suffix and crop offsets.
ResizeAlphabet == {"1", "x", "%", "+", "_", "!", "#", "^", "-", "a"}

ShortSpecs == StringsUpTo(ResizeAlphabet, MaxSpecLen)

DimParts ==
    { <<>>, <<"2", "0", "0">>, <<"1", "0", "0">>, <<"5", "0", "%">>,
      <<"0">>, <<"-", "5">>, <<"a", "b", "c">> }

PolicySuffixes == { <<>>, <<"!">>, <<"#">>, <<"^">>, <<"#", "!">>, <<"!", "#">> }

CropOffsets ==
    { <<>>, <<"+", "1", "0", "+", "2", "0">>, <<"_", "1", "0", "_", "2", "0">>,
      <<"+", "1", "0">>, <<"+", "a", "+", "1">> }

BuiltSpecs ==
    { w \o <<"x">> \o h \o p \o o :
        w \in DimParts, h \in DimParts, p \in PolicySuffixes, o \in CropOffsets }

ResizeSpecs ==
    ShortSpecs \cup BuiltSpecs
        \cup { <<"1", "0", "0", "x", "2", "0", "0", "x", "3", "0", "0">>,
               <<"a", "b", "c", "x", "d", "e", "f">> }

SourceSizes == { [w |-> 1000, h |-> 500], [w |-> 1000, h |-> 400], [w |-> 800, h |-> 600] }

ResizeStart ==
    /\ rzSpec \in ResizeSpecs
    /\ rzSource \in SourceSizes
    /\ rzPc = "parse"
    /\ rzParsed = Unset
    /\ rzPlan = Unset

ResizeOff ==
    /\ rzSpec = <<>>
    /\ rzSource = [w |-> 0, h |-> 0]
    /\ rzPc = "off"
    /\ rzParsed = Unset
    /\ rzPlan = Unset

\* main.go:731-734, parseResizeString; an error ends the run.
ResizeParse ==
    /\ rzPc = "parse"
    /\ LET parsed == parseResizeString(rzSpec)
       IN  /\ rzParsed' = SetTo(parsed)
           /\ rzPc' = IF parsed.err # "" THEN "done" ELSE "transform"
    /\ UNCHANGED <<rzSpec, rzSource, rzPlan>>
    /\ ResizeFrame

\* main.go:736-742, resizeImage: the buffer is decoded (resize.go:176-185),
\* transformed and exported again (resize.go:255); each step can fail.
ResizeTransform ==
    /\ rzPc = "transform"
    /\ \E r \in {"ok", "decode failed", "export failed"} :
          rzPlan' = IF r = "decode failed"
                    THEN SetTo(TransformError(r, Unset, Unset))
                    ELSE LET done == resizeImage(rzSource, rzParsed.val.params.val)
                         IN  IF r = "ok" \/ done.err # "" THEN SetTo(done)
                             ELSE SetTo([done EXCEPT !.err = r])
    /\ rzPc' = "done"
    /\ UNCHANGED <<rzSpec, rzSource, rzParsed>>
    /\ ResizeFrame

(***************************************************************************)
(* adjustViewportForFullHeight (main.go:165-256).  A float64 of the layout *)
(* metrics is a whole number of pixels and whether a fraction follows it.  *)
(***************************************************************************)
Float(n, frac) == [int |-> n, frac |-> frac]

\* int(math.Ceil(f)).
Ceil(f) == IF f.frac THEN f.int + 1 ELSE f.int

\* math.MaxInt where int has 32 bits.
MaxInt == 2147483647

\* main.go:175-180, the measured content height.
ContentHeight(metrics) ==
    IF metrics.CSSContentSize.set THEN metrics.CSSContentSize.val.Height
    ELSE IF metrics.ContentSize.set THEN metrics.ContentSize.val.Height
    ELSE Float(0, FALSE)

\* main.go:185-197, the minimum height baseline.
MinimumHeight(config, metrics, targetHeight) ==
    LET m1 == config.ViewportHeight
        m2 == IF m1 <= 0 /\ metrics.CSSVisualViewport.set
              THEN Ceil(metrics.CSSVisualViewport.val.ClientHeight) ELSE m1
        m3 == IF m2 <= 0 /\ metrics.CSSLayoutViewport.set
              THEN metrics.CSSLayoutViewport.val.ClientHeight ELSE m2
        m4 == IF m3 <= 0 THEN targetHeight ELSE m3
    IN  IF m4 <= 0 THEN 1 ELSE m4

\* The target height raised to the baseline but never capped.
RaisedHeight(targetHeight, minHeight) ==
    IF targetHeight <= 0 \/ targetHeight < minHeight THEN minHeight ELSE targetHeight

\* main.go:199-218, the target height raised to the baseline and capped at
\* ten times the baseline.
CappedHeight(targetHeight, minHeight) ==
    LET t1 == IF targetHeight <= 0 THEN minHeight ELSE targetHeight
        t2 == IF t1 < minHeight THEN minHeight ELSE t1
        maxHeight == IF minHeight > 0
                     THEN IF minHeight > MaxInt \div 10 THEN MaxInt ELSE minHeight * 10
                     ELSE minHeight
    IN  IF maxHeight > 0 /\ t2 > maxHeight THEN maxHeight ELSE t2

\* main.go:224-236, the width of the new viewport.
PlannedWidth(config, metrics) ==
    LET w1 == config.ViewportWidth
        w2 == IF w1 <= 0 /\ metrics.CSSVisualViewport.set
              THEN Ceil(metrics.CSSVisualViewport.val.ClientWidth) ELSE w1
        w3 == IF w2 <= 0 /\ metrics.CSSLayoutViewport.set
              THEN metrics.CSSLayoutViewport.val.ClientWidth ELSE w2
        w4 == IF w3 <= 0 /\ metrics.CSSContentSize.set
              THEN Ceil(metrics.CSSContentSize.val.Width) ELSE w3
    IN  IF w4 <= 0 THEN 1024 ELSE w4

\* main.go:182-240, what the planner computes from the metrics, and whether
\* it goes on to call page.SetViewport.
PlanViewport(config, metrics) ==
    LET measured     == Ceil(ContentHeight(metrics))
        minHeight    == MinimumHeight(config, metrics, measured)
        targetHeight == CappedHeight(measured, minHeight)
        width        == PlannedWidth(config, metrics)
    IN  [minHeight |-> minHeight, height |-> targetHeight, width |-> width,
         mutate |-> /\ targetHeight > 0
                    /\ ~(targetHeight = config.ViewportHeight /\ width = config.ViewportWidth)]

ContentSizes ==
    {Unset} \cup
    { SetTo([Width |-> Float(1280, FALSE), Height |-> h]) :
        h \in { Float(0, FALSE), Float(300, FALSE), Float(600, TRUE),
                Float(10000, FALSE), Float(400000000, FALSE) } }

LayoutMetrics ==
    [ CSSContentSize    : ContentSizes,
      ContentSize       : {Unset, SetTo([Width |-> Float(1280, FALSE), Height |-> Float(900, FALSE)])},
      CSSVisualViewport : {Unset, SetTo([ClientWidth |-> Float(1279, TRUE),
                                         ClientHeight |-> Float(719, TRUE)])},
      CSSLayoutViewport : {Unset, SetTo([ClientWidth |-> 1265, ClientHeight |-> 700])} ]

PlannerConfigs ==
    { [ViewportWidth |-> 0, ViewportHeight |-> 0],
      [ViewportWidth |-> 800, ViewportHeight |-> 600],
      [ViewportWidth |-> 800, ViewportHeight |-> 300000000] }

\* The page as executeBrowserRequest hands it over: the configured viewport
\* was set on it when both sides are positive (main.go:680-682).
FullHeightStart ==
    /\ fhConfig \in PlannerConfigs
    /\ fhMetrics \in LayoutMetrics
    /\ fhActive = IF fhConfig.ViewportWidth > 0 /\ fhConfig.ViewportHeight > 0
                  THEN SetTo([w |-> fhConfig.ViewportWidth, h |-> fhConfig.ViewportHeight])
                  ELSE Unset
    /\ fhCalls = <<>>

FullHeightOff ==
    /\ fhConfig = [ViewportWidth |-> 0, ViewportHeight |-> 0]
    /\ fhMetrics = [CSSContentSize |-> Unset, ContentSize |-> Unset,
                    CSSVisualViewport |-> Unset, CSSLayoutViewport |-> Unset]
    /\ fhActive = Unset
    /\ fhCalls = <<>>

\* One call of the planner, as the history keeps it.
PlannerCall(plan, issued, err) ==
    [metrics |-> fhMetrics, before |-> fhConfig, plan |-> plan, issued |-> issued, err |-> err]

\* main.go:170-173, PageGetLayoutMetrics fails and the planner returns the error.
FullHeightMetricsFail ==
    /\ Len(fhCalls) < MaxPlannerCalls
    /\ fhCalls' = Append(fhCalls, PlannerCall(Unset, FALSE, "failed to get layout metrics"))
    /\ UNCHANGED <<fhConfig, fhMetrics, fhActive>>
    /\ FullHeightFrame

\* main.go:220-240, nothing to do: the height is not positive or the
\* computed viewport is the configured one.
FullHeightKeep ==
    /\ Len(fhCalls) < MaxPlannerCalls
    /\ LET plan == PlanViewport(fhConfig, fhMetrics)
       IN  /\ ~plan.mutate
           /\ fhCalls' = Append(fhCalls, PlannerCall(SetTo(plan), FALSE, ""))
    /\ UNCHANGED <<fhConfig, fhMetrics, fhActive>>
    /\ FullHeightFrame

\* main.go:242-255, page.SetViewport is called; when it succeeds the new
\* viewport is written back into the config.
FullHeightSet ==
    /\ Len(fhCalls) < MaxPlannerCalls
    /\ LET plan == PlanViewport(fhConfig, fhMetrics)
       IN  /\ plan.mutate
           /\ \/ /\ fhActive' = SetTo([w |-> plan.width, h |-> plan.height])
                 /\ fhConfig' = [ViewportWidth |-> plan.width, ViewportHeight |-> plan.height]
                 /\ fhCalls' = Append(fhCalls, PlannerCall(SetTo(plan), TRUE, ""))
              \/ /\ fhCalls' = Append(fhCalls,
                        PlannerCall(SetTo(plan), TRUE, "failed to set viewport for full height"))
                 /\ UNCHANGED <<fhConfig, fhActive>>
    /\ UNCHANGED fhMetrics
    /\ FullHeightFrame

\* Between two calls the page lays itself out again and its content size changes.
FullHeightRelayout ==
    /\ fhCalls # <<>> /\ Len(fhCalls) < MaxPlannerCalls
    /\ \E c \in ContentSizes \ {fhMetrics.CSSContentSize} :
          fhMetrics' = [fhMetrics EXCEPT !.CSSContentSize = c]
    /\ UNCHANGED <<fhConfig, fhActive, fhCalls>>
    /\ FullHeightFrame

(***************************************************************************)
(* executeBrowserRequest (main.go:624-763).  Every call into the browser   *)
(* may return an error; once the page's timeout has expired every call on  *)
(* the page does.  MustPage and MustSetViewport panic instead of returning *)
(* an error.  The deferred browser.Close() runs on return and on panic.    *)
(***************************************************************************)
EmptyResponse ==
    [Cookies |-> Unset, HTML |-> Unset, Screenshot |-> Unset, ContentType |-> "",
     NetworkRequests |-> Unset, ConsoleLogs |-> Unset]

NoResult == [kind |-> "none"]

\* The resize strings of the runs, and whether parseResizeString
\* (resize.go:41-119) accepts them.
ResizeParams ==
    { <<>>, <<"2", "0", "0", "x", "1", "0", "0">>, <<"a", "b", "c", "x", "d", "e", "f">> }

ResizeParses(param) == parseResizeString(param).err = ""

ExecConfigs ==
    [ Viewport          : {[w |-> 0, h |-> 0], [w |-> 800, h |-> 600]},
      TimeoutSeconds    : {0, 30},
      WaitSeconds       : {0, 2},
      ResizeParam       : ResizeParams,
      FullHeight        : BOOLEAN,
      Cookies           : {<<>>, <<"session">>},
      CaptureCookies    : BOOLEAN,
      CaptureScreenshot : BOOLEAN,
      CaptureHTML       : BOOLEAN,
      CaptureNetwork    : BOOLEAN,
      CaptureLogs       : BOOLEAN ]

ExecInputs == {[url |-> "http://a.io/", html |-> ""], [url |-> "", html |-> "<p>hi</p>"]}

ExecStart ==
    /\ exConfig \in ExecConfigs
    /\ exInput \in ExecInputs
    /\ exPc = "parseConfig"
    /\ exBrowser = [connected |-> FALSE, deferred |-> FALSE, closes |-> 0]
    /\ exExpired = [armed |-> FALSE, passed |-> FALSE]
    /\ exResponse = EmptyResponse
    /\ exResult = NoResult
    /\ exHist = [calls |-> <<>>, failed |-> {}]

ExecOff ==
    /\ exConfig = [Viewport |-> [w |-> 0, h |-> 0], TimeoutSeconds |-> 0, WaitSeconds |-> 0,
                   ResizeParam |-> <<>>, FullHeight |-> FALSE, Cookies |-> <<>>,
                   CaptureCookies |-> FALSE, CaptureScreenshot |-> FALSE,
                   CaptureHTML |-> FALSE, CaptureNetwork |-> FALSE, CaptureLogs |-> FALSE]
    /\ exInput = [url |-> "", html |-> ""]
    /\ exPc = "off"
    /\ exBrowser = [connected |-> FALSE, deferred |-> FALSE, closes |-> 0]
    /\ exExpired = [armed |-> FALSE, passed |-> FALSE]
    /\ exResponse = EmptyResponse
    /\ exResult = NoResult
    /\ exHist = [calls |-> <<>>, failed |-> {}]

\* The outcomes a call on the page can have.
PageCall == IF exExpired.passed THEN {"err"} ELSE {"ok", "err"}

Called(name) == [exHist EXCEPT !.calls = Append(@, name)]

CalledAndFailed(name) == [exHist EXCEPT !.calls = Append(@, name), !.failed = @ \cup {name}]

\* A close written as a plain call before each return: a panic skips it.
UnwindWithoutDefer(kind, deferred) ==
    IF deferred /\ kind # "panic" THEN "close" ELSE "done"

\* Where control goes when the function returns or panics: to the deferred
\* close, if the defer statement (main.go:633) was reached.
Unwind(kind, deferred) == IF deferred THEN "close" ELSE "done"

\* "return nil, err": the response built so far is dropped.
ReturnError(name) ==
    /\ exResult' = [kind |-> "error", response |-> Unset]
    /\ exPc' = Unwind("error", exBrowser.deferred)
    /\ exHist' = CalledAndFailed(name)
    /\ UNCHANGED <<exConfig, exInput, exBrowser, exExpired, exResponse>>

\* A Must* call panics: the stack unwinds through the deferred close.
Panic(name) ==
    /\ exResult' = [kind |-> "panic", response |-> Unset]
    /\ exPc' = Unwind("panic", exBrowser.deferred)
    /\ exHist' = CalledAndFailed(name)
    /\ UNCHANGED <<exConfig, exInput, exBrowser, exExpired, exResponse>>

\* A step that is skipped or succeeds without touching the response.
Proceed(next, hist) ==
    /\ exPc' = next
    /\ exHist' = hist
    /\ UNCHANGED <<exConfig, exInput, exBrowser, exExpired, exResponse, exResult>>

\* main.go:125-163, parseRequestConfig as the command line and the HTTP
\* handlers call it before executeBrowserRequest: the viewport, timeout,
\* wait and domain strings are parsed and a malformed one is an error; the
\* resize string is stored as it came (main.go:157).
ExParseRequestConfig ==
    /\ exPc = "parseConfig"
    /\ \/ Proceed("connect", Called("parseRequestConfig"))
       \/ ReturnError("parseRequestConfig")
    /\ ExecFrame

\* main.go:625-637, rod.New().Connect() and the defer of browser.Close().
ExConnect ==
    /\ exPc = "connect"
    /\ \/ /\ exBrowser' = [exBrowser EXCEPT !.connected = TRUE, !.deferred = TRUE]
          /\ exPc' = "newPage"
          /\ exHist' = Called("Connect")
          /\ UNCHANGED <<exConfig, exInput, exExpired, exResponse, exResult>>
       \/ ReturnError("Connect")
    /\ ExecFrame

\* main.go:639, browser.MustPage().
ExNewPage ==
    /\ exPc = "newPage"
    /\ \/ Proceed("hijack", Called("MustPage"))
       \/ Panic("MustPage")
    /\ ExecFrame

\* main.go:642-651, setupRequestHijacking installs the handlers.
ExSetupHijack ==
    /\ exPc = "hijack"
    /\ Proceed("setTimeout", Called("setupRequestHijacking"))
    /\ ExecFrame

\* main.go:654-656, page.Timeout arms the deadline of every later page call.
ExSetTimeout ==
    /\ exPc = "setTimeout"
    /\ exExpired' = [exExpired EXCEPT !.armed = exConfig.TimeoutSeconds > 0]
    /\ exPc' = "setCookies"
    /\ UNCHANGED <<exConfig, exInput, exBrowser, exResponse, exResult, exHist>>
    /\ ExecFrame

\* The deadline passes while the run is under way.
ExTimeoutExpires ==
    /\ exExpired.armed /\ ~exExpired.passed
    /\ exPc \notin {"close", "done", "off"}
    /\ exExpired' = [exExpired EXCEPT !.passed = TRUE]
    /\ UNCHANGED <<exConfig, exInput, exPc, exBrowser, exResponse, exResult, exHist>>
    /\ ExecFrame

\* main.go:659-664, page.SetCookies.
ExSetCookies ==
    /\ exPc = "setCookies"
    /\ IF Len(exConfig.Cookies) > 0
       THEN \E r \in PageCall :
               IF r = "ok" THEN Proceed("load", Called("SetCookies"))
               ELSE ReturnError("SetCookies")
       ELSE Proceed("load", exHist)
    /\ ExecFrame

\* main.go:667-677, page.SetDocumentContent or page.Navigate.
ExLoad ==
    /\ exPc = "load"
    /\ LET call == IF exInput.html # "" THEN "SetDocumentContent" ELSE "Navigate"
       IN  \E r \in PageCall :
              IF r = "ok" THEN Proceed("viewport", Called(call))
              ELSE ReturnError(call)
    /\ ExecFrame

\* main.go:680-682, page.MustSetViewport.
ExSetViewport ==
    /\ exPc = "viewport"
    /\ IF exConfig.Viewport.w > 0 /\ exConfig.Viewport.h > 0
       THEN \E r \in PageCall :
               IF r = "ok" THEN Proceed("waitLoad", Called("MustSetViewport"))
               ELSE Panic("MustSetViewport")
       ELSE Proceed("waitLoad", exHist)
    /\ ExecFrame

\* The calls of a successful load wait: WaitLoad, then time.Sleep when a
\* wait is configured.
Waited(hist, config) ==
    [hist EXCEPT !.calls = @ \o (IF config.WaitSeconds > 0
                                 THEN <<"WaitLoad", "Sleep">> ELSE <<"WaitLoad">>)]

\* A run that goes on to the captures without waiting for the load.
ExWaitLoadSkipped ==
    /\ exPc = "waitLoad"
    /\ Proceed("fullHeight", exHist)
    /\ ExecFrame

\* main.go:684-692, page.WaitLoad and the optional sleep.
ExWaitLoad ==
    /\ exPc = "waitLoad"
    /\ \E r \in PageCall :
          IF r = "ok" THEN Proceed("fullHeight", Waited(exHist, exConfig))
          ELSE ReturnError("WaitLoad")
    /\ ExecFrame

\* main.go:694-698, adjustViewportForFullHeight: it fails, leaves the
\* viewport alone, or sets a new one and writes it back into the config.
ExFullHeight ==
    /\ exPc = "fullHeight"
    /\ IF exConfig.FullHeight
       THEN \E r \in PageCall :
               IF r = "ok"
               THEN \E v \in {exConfig.Viewport, [w |-> 1024, h |-> 3000]} :
                       /\ exConfig' = [exConfig EXCEPT !.Viewport = v]
                       /\ exPc' = "cookies"
                       /\ exHist' = Called("adjustViewportForFullHeight")
                       /\ UNCHANGED <<exInput, exBrowser, exExpired, exResponse, exResult>>
               ELSE ReturnError("adjustViewportForFullHeight")
       ELSE Proceed("cookies", exHist)
    /\ ExecFrame

\* What the cookie step leaves in the response: an error of page.Cookies is
\* dropped and the field stays unset.
AfterCookies(response, r) ==
    IF r = "ok" THEN [response EXCEPT !.Cookies = SetTo("cookies")] ELSE response

\* main.go:702-716, page.Cookies.
ExCookies ==
    /\ exPc = "cookies"
    /\ IF exConfig.CaptureCookies
       THEN \E r \in PageCall :
               /\ exResponse' = AfterCookies(exResponse, r)
               /\ exHist' = IF r = "ok" THEN Called("Cookies") ELSE CalledAndFailed("Cookies")
               /\ exPc' = "screenshot"
               /\ UNCHANGED <<exConfig, exInput, exBrowser, exExpired, exResult>>
       ELSE Proceed("screenshot", exHist)
    /\ ExecFrame

\* main.go:718-727, page.Screenshot.
ExScreenshot ==
    /\ exPc = "screenshot"
    /\ IF exConfig.CaptureScreenshot
       THEN \E r \in PageCall :
               IF r = "ok"
               THEN /\ exResponse' = [exResponse EXCEPT !.Screenshot = SetTo("png bytes"),
                                                        !.ContentType = "image/png"]
                    /\ exPc' = "resize"
                    /\ exHist' = Called("Screenshot")
                    /\ UNCHANGED <<exConfig, exInput, exBrowser, exExpired, exResult>>
               ELSE ReturnError("Screenshot")
       ELSE Proceed("html", exHist)
    /\ ExecFrame

\* main.go:730-743, parseResizeString and resizeImage (no page call).
ExResize ==
    /\ exPc = "resize"
    /\ IF exConfig.ResizeParam # <<>>
       THEN IF ResizeParses(exConfig.ResizeParam)
            THEN \E r \in {"ok", "err"} :
                    IF r = "ok"
                    THEN /\ exResponse' = [exResponse EXCEPT !.Screenshot = SetTo("resized bytes"),
                                                             !.ContentType = "image/png"]
                         /\ exPc' = "html"
                         /\ exHist' = Called("resizeImage")
                         /\ UNCHANGED <<exConfig, exInput, exBrowser, exExpired, exResult>>
                    ELSE ReturnError("resizeImage")
            ELSE ReturnError("parseResizeString")
       ELSE Proceed("html", exHist)
    /\ ExecFrame

\* main.go:746-752, page.HTML.
ExHTML ==
    /\ exPc = "html"
    /\ IF exConfig.CaptureHTML
       THEN \E r \in PageCall :
               IF r = "ok"
               THEN /\ exResponse' = [exResponse EXCEPT !.HTML = SetTo("<html>")]
                    /\ exPc' = "collect"
                    /\ exHist' = Called("HTML")
                    /\ UNCHANGED <<exConfig, exInput, exBrowser, exExpired, exResult>>
               ELSE ReturnError("HTML")
       ELSE Proceed("collect", exHist)
    /\ ExecFrame

\* main.go:754-762, the collected lists are attached and the response returned.
ExReturn ==
    /\ exPc = "collect"
    /\ LET full == [exResponse EXCEPT
                       !.NetworkRequests = IF exConfig.CaptureNetwork
                                           THEN SetTo(NetworkRequests) ELSE @,
                       !.ConsoleLogs     = IF exConfig.CaptureLogs
                                           THEN SetTo(ConsoleLogs) ELSE @]
       IN  /\ exResponse' = full
           /\ exResult' = [kind |-> "response", response |-> SetTo(full)]
    /\ exPc' = Unwind("response", exBrowser.deferred)
    /\ UNCHANGED <<exConfig, exInput, exBrowser, exExpired, exHist>>
    /\ ExecFrame

\* main.go:633-637, the deferred browser.Close(); its error is only logged.
ExClose ==
    /\ exPc = "close"
    /\ exBrowser' = [exBrowser EXCEPT !.closes = @ + 1]
    /\ exPc' = "done"
    /\ \E r \in {"ok", "err"} :
          exHist' = IF r = "ok" THEN Called("Close") ELSE CalledAndFailed("Close")
    /\ UNCHANGED <<exConfig, exInput, exExpired, exResponse, exResult>>
    /\ ExecFrame

(***************************************************************************)
(* The MCP tools: handleConfigureContext and the three capture handlers    *)
(* (help.go:352-651) over the context store (mcp_context_config.go) and    *)
(* the request store (mcp_request_history.go).  Tool calls run             *)
(* concurrently (one server behind the HTTP handler, http.go:184-190):     *)
(* a call is one goroutine, and its steps are the handler's accesses to    *)
(* the shared stores.  configManager.mutex guards the map of contexts; a   *)
(* BrowserContextConfig's own mutex guards UpdateCookies and               *)
(* AddRequestToHistory only, so the handlers' reads and writes of its      *)
(* fields are steps of their own.  Cookies are the set of a slice's        *)
(* elements; a request ID is a positive number and "" is 0; time.Now() is  *)
(* the number of calls made so far.                                        *)
(***************************************************************************)
\* strings.TrimSpace, for the blank.
RECURSIVE TrimSpace(_)
TrimSpace(s) ==
    IF s # <<>> /\ Head(s) = " " THEN TrimSpace(Tail(s))
    ELSE IF s # <<>> /\ s[Len(s)] = " " THEN TrimSpace(SubSeq(s, 1, Len(s) - 1))
    ELSE s

\* ParseViewportString (viewport.go:9-31).
ParseViewportString(viewport) ==
    LET parts  == Split(viewport, "x")
        width  == Atoi(parts[1])
        height == Atoi(parts[2])
        failed(msg) == [err |-> msg, Width |-> 0, Height |-> 0]
    IN  IF viewport = <<>> THEN failed("")
        ELSE IF Len(parts) # 2 THEN failed("invalid viewport format, expected WxH")
        ELSE IF width.err \/ width.val <= 0 THEN failed("invalid viewport width")
        ELSE IF height.err \/ height.val <= 0 THEN failed("invalid viewport height")
        ELSE [err |-> "", Width |-> width.val, Height |-> height.val]

\* ParseDomainWhitelist (domains.go:9-25): the error is always nil.
ParseDomainWhitelist(whitelist) ==
    LET domains == Split(whitelist, ",")
        trimmed == [i \in DOMAIN domains |-> TrimSpace(domains[i])]
    IN  [err  |-> "",
         list |-> IF whitelist = <<>> THEN <<>>
                  ELSE SelectSeq(trimmed, LAMBDA domain : domain # <<>>)]

\* The global flags main() stores before it starts the server
\* (main.go:787-792); --timeout is an int flag stored as given.
McpFlagSets ==
    { [viewport |-> <<>>, timeout |-> 0, domains |-> <<>>],
      [viewport |-> <<"6", "4", "0", "x", "4", "8", "0">>, timeout |-> 400,
       domains |-> PatA] }

\* DefaultBrowserContextConfig (mcp_context_config.go:25-63), with no
\* global custom headers.
DefaultBrowserContextConfig(flags) ==
    LET viewport == ParseViewportString(flags.viewport)
        domains  == ParseDomainWhitelist(flags.domains)
    IN  [Name            |-> "default",
         DefaultViewport |-> IF flags.viewport # <<>> /\ viewport.err = ""
                             THEN [Width |-> viewport.Width, Height |-> viewport.Height]
                             ELSE [Width |-> 1366, Height |-> 854],
         DefaultTimeout  |-> IF flags.timeout > 0 THEN flags.timeout ELSE 30,
         DomainWhitelist |-> IF flags.domains # <<>> /\ domains.err = ""
                             THEN domains.list ELSE <<>>,
         Cookies         |-> {},
         Headers         |-> EmptyMap,
         LastRequestID   |-> 0,
         RequestHistory  |-> <<>>,
         CreatedAt       |-> 0]

\* The five settings of a context that a capture run reads.
Settings(config) ==
    [ViewportWidth   |-> config.DefaultViewport.Width,
     ViewportHeight  |-> config.DefaultViewport.Height,
     TimeoutSeconds  |-> config.DefaultTimeout,
     DomainWhitelist |-> config.DomainWhitelist,
     CustomHeaders   |-> config.Headers,
     Cookies         |-> config.Cookies]

\* UpdateCookies (mcp_context_config.go:72-102): the key of the merge is
\* Name + "|" + Domain (no domain at hand holds a "|").
CookieKey(cookie) == <<cookie.Name, cookie.Domain>>

UpdateCookies(cookies, newCookies, merge) ==
    IF merge /\ cookies # {}
    THEN {c \in cookies : \A n \in newCookies : CookieKey(n) # CookieKey(c)}
         \cup newCookies
    ELSE newCookies

\* Cookies of the model: two the client configures, one the browser
\* returns under the key of the first.
CookieSid   == [Name |-> "sid", Domain |-> "a.io", Value |-> "old"]
CookieTheme == [Name |-> "theme", Domain |-> "a.io", Value |-> "dark"]
CookieFresh == [Name |-> "sid", Domain |-> "a.io", Value |-> "new"]

\* The arguments of configure_browser_context (help.go:229-236): a nil
\* pointer, slice or map is Unset.
ConfigureArgs(name, viewport, timeout, domains, cookies, headers) ==
    [tool |-> "configure_browser_context", ContextName |-> name,
     Viewport |-> viewport, Timeout |-> timeout, Domains |-> domains,
     Cookies |-> cookies, Headers |-> headers]

ConfigureInputs ==
    { ConfigureArgs("b", SetTo(<<"8", "0", "0", "x", "6", "0", "0">>), Unset, Unset,
                    Unset, Unset),
      ConfigureArgs("b", Unset, SetTo(301), Unset, Unset, Unset),
      ConfigureArgs("", SetTo(<<"8", "0", "0">>), SetTo(60), Unset, Unset, Unset),
      ConfigureArgs("", Unset, Unset, SetTo(<<>>), SetTo({}), SetTo(EmptyMap)),
      ConfigureArgs("", Unset, SetTo(60), SetTo(PatA \o <<",", " ">> \o PatBad),
                    SetTo({CookieSid, CookieTheme}), SetTo("X-Token" :> "secret")) }

\* The arguments of the capture tools (help.go:238-258): Target is the
\* URL or the HTML content.
CaptureArgs(tool, name, target, update) ==
    [tool |-> tool, ContextName |-> name, Target |-> target, UpdateCookies |-> update]

CaptureInputs ==
    { CaptureArgs("capture_screenshot_from_url", "", "http://a.io/", TRUE),
      CaptureArgs("capture_screenshot_from_html", "b", "<p>", FALSE),
      CaptureArgs("extract_html_content", "b", "http://a.io/", TRUE),
      CaptureArgs("capture_screenshot_from_url", "", "", FALSE) }

\* The request type each handler records (help.go:465, 542, 614).
RequestType(tool) ==
    CASE tool = "capture_screenshot_from_url"  -> "screenshot"
      [] tool = "capture_screenshot_from_html" -> "screenshot_html"
      [] tool = "extract_html_content"         -> "get_html"

\* What executeBrowserRequest returns to a handler: an error, or a response
\* with the cookies of the page.
CaptureOutcomes ==
    { [err |-> "navigation failed", Cookies |-> {}],
      [err |-> "", Cookies |-> {}],
      [err |-> "", Cookies |-> {CookieFresh}] }

\* contextName := args.ContextName; if contextName == "" { "default" }.
ContextNameOf(args) == IF args.ContextName = "" THEN "default" ELSE args.ContextName

NoRequestConfig ==
    [ViewportWidth |-> 0, ViewportHeight |-> 0, TimeoutSeconds |-> 0,
     DomainWhitelist |-> <<>>, CustomHeaders |-> EmptyMap, Cookies |-> {}]

NoEntry == [ID |-> 0, ContextName |-> "", RequestType |-> "", Error |-> ""]

\* A tool call the server has received and not yet begun to handle.
NewCall(args) ==
    [args |-> args, pc |-> "lookup", config |-> 0, fresh |-> FALSE,
     requestConfig |-> NoRequestConfig, response |-> [err |-> "", Cookies |-> {}],
     entry |-> NoEntry, err |-> ""]

\* time.Now().
Now == Len(mcpCalls)

\* NewContextConfigManager (mcp_context_config.go:122-130): the context
\* "default" exists from the start.
McpStart ==
    /\ mcpFlags \in McpFlagSets
    /\ mcpHeap = <<DefaultBrowserContextConfig(mcpFlags)>>
    /\ mcpContexts = ("default" :> 1)
    /\ mcpLock = 0
    /\ mcpRequests = EmptyMap
    /\ mcpCalls = <<>>
    /\ mcpHist = <<{Settings(DefaultBrowserContextConfig(mcpFlags))}>>

McpOff ==
    /\ mcpFlags = [viewport |-> <<>>, timeout |-> 0, domains |-> <<>>]
    /\ mcpHeap = <<>>
    /\ mcpContexts = EmptyMap
    /\ mcpLock = 0
    /\ mcpRequests = EmptyMap
    /\ mcpCalls = <<>>
    /\ mcpHist = <<>>

IsConfigure(call) == call.args.tool = "configure_browser_context"

At(i, tool, pc) ==
    /\ i \in DOMAIN mcpCalls
    /\ mcpCalls[i].pc = pc
    /\ IsConfigure(mcpCalls[i]) <=> tool = "configure"

\* The call's record after a step, and after its handler returned.
Moved(i, pc, changes) ==
    mcpCalls' = [mcpCalls EXCEPT ![i] = [f \in DOMAIN @ |->
        IF f = "pc" THEN pc
        ELSE IF f \in DOMAIN changes THEN changes[f] ELSE @[f]]]

Returned(i, err) ==
    mcpCalls' = [mcpCalls EXCEPT ![i] =
        [NewCall(@.args) EXCEPT !.pc = "done", !.err = err]]

\* The client sends a tool call; the server runs a bounded number of handlers
\* at a time.
InFlight == {i \in DOMAIN mcpCalls : mcpCalls[i].pc # "done"}

McpCall ==
    /\ Len(mcpCalls) < MaxCalls
    /\ Cardinality(InFlight) < MaxInFlight
    /\ \E args \in ConfigureInputs \cup CaptureInputs :
          mcpCalls' = Append(mcpCalls, NewCall(args))
    /\ UNCHANGED <<mcpFlags, mcpHeap, mcpContexts, mcpLock, mcpRequests>>
    /\ UNCHANGED mcpHist
    /\ McpFrame

\* The fields handleConfigureContext updates, in its order
\* (help.go:366-404).
ConfigureFields == <<"Viewport", "Timeout", "Domains", "Cookies", "Headers">>

\* The next field after the k-th that the call gives, or the store.
NextWrite(args, k) ==
    LET later == {j \in DOMAIN ConfigureFields : j > k /\ args[ConfigureFields[j]].set}
    IN  IF later = {} THEN "store"
        ELSE ConfigureFields[CHOOSE j \in later : \A l \in later : j <= l]

\* GetContext, and DefaultBrowserContextConfig for a name without context
\* (help.go:353-364).
CfgLookup(i) ==
    /\ At(i, "configure", "lookup")
    /\ mcpLock = 0
    /\ LET args == mcpCalls[i].args
           name == ContextNameOf(args)
       IN  IF name \in DOMAIN mcpContexts
           THEN /\ Moved(i, NextWrite(args, 0), [config |-> mcpContexts[name]])
                /\ UNCHANGED <<mcpHeap, mcpHist>>
           ELSE /\ mcpHeap' = Append(mcpHeap,
                       [DefaultBrowserContextConfig(mcpFlags) EXCEPT !.Name = name])
                /\ mcpHist' = Append(mcpHist, {})
                /\ Moved(i, NextWrite(args, 0),
                         [config |-> Len(mcpHeap) + 1, fresh |-> TRUE])
    /\ UNCHANGED <<mcpFlags, mcpContexts, mcpLock, mcpRequests>>
    /\ McpFrame

\* History: a version of object p comes into being.
Version(p, config) == mcpHist' = [mcpHist EXCEPT ![p] = @ \cup {Settings(config)}]

\* A write of one field of the context's configuration, without its mutex.
\* The last write of a call to a context that others can reach completes a
\* version of it.
WriteField(i, k, value) ==
    /\ mcpHeap' = [mcpHeap EXCEPT ![mcpCalls[i].config] = value]
    /\ Moved(i, NextWrite(mcpCalls[i].args, k), EmptyMap)
    /\ IF NextWrite(mcpCalls[i].args, k) = "store" /\ ~mcpCalls[i].fresh
       THEN Version(mcpCalls[i].config, value)
       ELSE UNCHANGED mcpHist
    /\ UNCHANGED <<mcpFlags, mcpContexts, mcpLock, mcpRequests>>
    /\ McpFrame

\* help.go:366-376: a viewport that does not parse ends the call.
CfgViewport(i) ==
    /\ At(i, "configure", "Viewport")
    /\ LET config == mcpHeap[mcpCalls[i].config]
           parsed == ParseViewportString(mcpCalls[i].args.Viewport.val)
       IN  IF parsed.err # ""
           THEN /\ Returned(i, "invalid viewport")
                /\ UNCHANGED <<mcpFlags, mcpHeap, mcpContexts, mcpLock, mcpRequests>>
                /\ UNCHANGED mcpHist
                /\ McpFrame
           ELSE WriteField(i, 1, [config EXCEPT !.DefaultViewport =
                                    [Width |-> parsed.Width, Height |-> parsed.Height]])

\* help.go:378-381.
TimeoutStored(config, timeout) == [config EXCEPT !.DefaultTimeout = timeout]

CfgTimeout(i) ==
    /\ At(i, "configure", "Timeout")
    /\ WriteField(i, 2, TimeoutStored(mcpHeap[mcpCalls[i].config],
                                      mcpCalls[i].args.Timeout.val))

\* help.go:383-390.
CfgDomains(i) ==
    /\ At(i, "configure", "Domains")
    /\ LET config == mcpHeap[mcpCalls[i].config]
           parsed == ParseDomainWhitelist(mcpCalls[i].args.Domains.val)
       IN  IF parsed.err # ""
           THEN /\ Returned(i, "invalid domains")
                /\ UNCHANGED <<mcpFlags, mcpHeap, mcpContexts, mcpLock, mcpRequests>>
                /\ UNCHANGED mcpHist
                /\ McpFrame
           ELSE WriteField(i, 3, [config EXCEPT !.DomainWhitelist = parsed.list])

\* help.go:392-396.
CfgCookies(i) ==
    /\ At(i, "configure", "Cookies")
    /\ WriteField(i, 4, [mcpHeap[mcpCalls[i].config] EXCEPT
                            !.Cookies = mcpCalls[i].args.Cookies.val])

\* help.go:398-401.
CfgHeaders(i) ==
    /\ At(i, "configure", "Headers")
    /\ WriteField(i, 5, [mcpHeap[mcpCalls[i].config] EXCEPT
                            !.Headers = mcpCalls[i].args.Headers.val])

\* CreateOrUpdateContext (mcp_context_config.go:133-150) under the write
\* lock of the manager.  With another object stored under the name, the
\* copy of its history is the first of two steps: the object's own mutex is
\* not taken, so its AddRequestToHistory may run between the two.
CfgCreateOrUpdate(i) ==
    /\ At(i, "configure", "store")
    /\ mcpLock = 0
    /\ LET name   == ContextNameOf(mcpCalls[i].args)
           config == mcpCalls[i].config
       IN  IF name \notin DOMAIN mcpContexts
           THEN /\ mcpHeap' = [mcpHeap EXCEPT ![config] =
                       [@ EXCEPT !.CreatedAt = Now, !.RequestHistory = <<>>,
                                 !.Name = name]]
                /\ mcpContexts' = (name :> config) @@ mcpContexts
                /\ Version(config, mcpHeap[config])
                /\ Returned(i, "")
                /\ UNCHANGED mcpLock
           ELSE IF mcpContexts[name] = config
           THEN /\ Returned(i, "")
                /\ UNCHANGED <<mcpHeap, mcpContexts, mcpLock, mcpHist>>
           ELSE /\ mcpHeap' = [mcpHeap EXCEPT ![config] =
                       [@ EXCEPT !.RequestHistory =
                                    mcpHeap[mcpContexts[name]].RequestHistory]]
                /\ mcpLock' = i
                /\ Moved(i, "publish", EmptyMap)
                /\ UNCHANGED <<mcpContexts, mcpHist>>
    /\ UNCHANGED <<mcpFlags, mcpRequests>>
    /\ McpFrame

CfgPublish(i) ==
    /\ At(i, "configure", "publish")
    /\ LET name     == ContextNameOf(mcpCalls[i].args)
           config   == mcpCalls[i].config
           existing == mcpHeap[mcpContexts[name]]
       IN  /\ mcpHeap' = [mcpHeap EXCEPT ![config] =
                  [@ EXCEPT !.LastRequestID = existing.LastRequestID,
                            !.CreatedAt = existing.CreatedAt, !.Name = name]]
           /\ mcpContexts' = [mcpContexts EXCEPT ![name] = config]
           /\ Version(config, mcpHeap[config])
    /\ mcpLock' = 0
    /\ Returned(i, "")
    /\ UNCHANGED <<mcpFlags, mcpRequests>>
    /\ McpFrame

\* The argument check and GetContext of a capture handler
\* (help.go:426-439).
CapLookup(i) ==
    /\ At(i, "capture", "lookup")
    /\ LET args == mcpCalls[i].args
           name == ContextNameOf(args)
       IN  IF args.Target = "" THEN Returned(i, "argument is required")
           ELSE /\ mcpLock = 0
                /\ IF name \in DOMAIN mcpContexts
                   THEN Moved(i, "DefaultViewport", [config |-> mcpContexts[name]])
                   ELSE Returned(i, "context not found")
    /\ UNCHANGED <<mcpFlags, mcpHeap, mcpContexts, mcpLock, mcpRequests>>
    /\ UNCHANGED mcpHist
    /\ McpFrame

\* The handler fills its RequestConfig from the context's fields, one read
\* after the other and without the context's mutex (help.go:444-453).
ReadField(i, next, fields) ==
    /\ Moved(i, next, [requestConfig |-> fields @@ mcpCalls[i].requestConfig])
    /\ UNCHANGED <<mcpFlags, mcpHeap, mcpContexts, mcpLock, mcpRequests>>
    /\ UNCHANGED mcpHist
    /\ McpFrame

ConfigOf(i) == mcpHeap[mcpCalls[i].config]

CapReadViewport(i) ==
    /\ At(i, "capture", "DefaultViewport")
    /\ ReadField(i, "DefaultTimeout",
              [ViewportWidth  |-> ConfigOf(i).DefaultViewport.Width,
               ViewportHeight |-> ConfigOf(i).DefaultViewport.Height])

CapReadTimeout(i) ==
    /\ At(i, "capture", "DefaultTimeout")
    /\ ReadField(i, "DomainWhitelist",
              [TimeoutSeconds |-> ConfigOf(i).DefaultTimeout])

CapReadDomains(i) ==
    /\ At(i, "capture", "DomainWhitelist")
    /\ ReadField(i, "Headers",
              [DomainWhitelist |-> ConfigOf(i).DomainWhitelist])

CapReadHeaders(i) ==
    /\ At(i, "capture", "Headers")
    /\ ReadField(i, "Cookies", [CustomHeaders |-> ConfigOf(i).Headers])

CapReadCookies(i) ==
    /\ At(i, "capture", "Cookies")
    /\ ReadField(i, "execute", [Cookies |-> ConfigOf(i).Cookies])

\* GenerateRequestID (mcp_request_history.go:144-146): the second of the
\* clock and eight characters drawn from its nanoseconds, so an ID handed
\* out before can come again.
RequestIDs(i) == {i} \cup DOMAIN mcpRequests

\* NewRequestHistoryEntry, as the handlers call it: the StoredRequest of a
\* capture (mcp_request_history.go:13-29) with a generated ID, the context
\* name and request type handed in, and the capture's error.
NewRequestHistoryEntry(id, contextName, requestType, err) ==
    [ID |-> id, ContextName |-> contextName, RequestType |-> requestType,
     Error |-> err]

\* executeBrowserRequest and NewRequestHistoryEntry (help.go:463-465).
CapExecute(i) ==
    /\ At(i, "capture", "execute")
    /\ \E response \in CaptureOutcomes, id \in RequestIDs(i) :
          LET args  == mcpCalls[i].args
              entry == NewRequestHistoryEntry(id, ContextNameOf(args),
                                              RequestType(args.tool), response.err)
              next  == IF response.err = "" /\ args.UpdateCookies
                          /\ response.Cookies # {}
                       THEN "updateCookies" ELSE "storeRequest"
          IN  Moved(i, next, [response |-> response, entry |-> entry])
    /\ UNCHANGED <<mcpFlags, mcpHeap, mcpContexts, mcpLock, mcpRequests>>
    /\ UNCHANGED mcpHist
    /\ McpFrame

\* config.UpdateCookies(cookieParams, true) (help.go:474-478).
CapUpdateCookies(i) ==
    /\ At(i, "capture", "updateCookies")
    /\ mcpHeap' = [mcpHeap EXCEPT ![mcpCalls[i].config] =
          [@ EXCEPT !.Cookies = UpdateCookies(@, mcpCalls[i].response.Cookies, TRUE)]]
    /\ Moved(i, "storeRequest", EmptyMap)
    /\ Version(mcpCalls[i].config, mcpHeap'[mcpCalls[i].config])
    /\ UNCHANGED <<mcpFlags, mcpContexts, mcpLock, mcpRequests>>
    /\ McpFrame

\* requestManager.StoreRequest(entry) (mcp_request_history.go:66-71).
CapStoreRequest(i) ==
    /\ At(i, "capture", "storeRequest")
    /\ mcpRequests' = Store(mcpRequests, mcpCalls[i].entry.ID, mcpCalls[i].entry)
    /\ Moved(i, "addRequestToHistory", EmptyMap)
    /\ UNCHANGED <<mcpFlags, mcpHeap, mcpContexts, mcpLock>>
    /\ UNCHANGED mcpHist
    /\ McpFrame

\* config.AddRequestToHistory(entry.ID) (mcp_context_config.go:105-112); the
\* handler returns the capture's error.
CapAddRequestToHistory(i) ==
    /\ At(i, "capture", "addRequestToHistory")
    /\ mcpHeap' = [mcpHeap EXCEPT ![mcpCalls[i].config] =
          [@ EXCEPT !.RequestHistory = Append(@, mcpCalls[i].entry.ID),
                    !.LastRequestID = mcpCalls[i].entry.ID]]
    /\ Returned(i, mcpCalls[i].response.err)
    /\ UNCHANGED <<mcpFlags, mcpContexts, mcpLock, mcpRequests>>
    /\ UNCHANGED mcpHist
    /\ McpFrame

(***************************************************************************)
(* The HTTP handlers and their counters (http.go:62-177, metrics.go).      *)
(* net/http serves every request in a goroutine of its own and recovers a  *)
(* handler that panics; each atomic Add is one step.  TotalDuration is     *)
(* left out: no counter depends on it.                                     *)
(***************************************************************************)
MaxHttpRequests == 2

HttpHandlers == {"handleScreenshot", "handleHTML"}

\* What a request's query string holds: everything valid, no url, a
\* full_height that is no boolean, a parameter parseRequestConfig rejects.
HttpQueries == {"valid", "missing url", "invalid full_height", "invalid parameters"}

\* A request: the handler the mux picked, whether its path is exactly the
\* handler's ("/" also receives every path no other pattern matches), and
\* its query string.
HttpInputs == [handler : HttpHandlers, exactPath : BOOLEAN, query : HttpQueries]

\* How a call of executeBrowserRequest ends (main.go:624-762): with a
\* response, with an error, or in the panic of a Must* call.
ExecOutcomes == {"response", "error", "panic"}

NoHttpRequest == [pc |-> "none", input |-> Unset, outcome |-> "none", status |-> 0]

HttpStart ==
    /\ httpMetrics = [TotalRequests |-> 0, SuccessRequests |-> 0, FailedRequests |-> 0]
    /\ httpReq = [i \in 1..MaxHttpRequests |-> NoHttpRequest]

\* The HTTP server is not part of the behaviours of the other specifications.
HttpOff == HttpStart

\* The handler returns with a status.
Responded(i, status) ==
    [httpReq EXCEPT ![i] = [@ EXCEPT !.pc = "done", !.status = status]]

\* http.go:63-66 / 122-125, a request arrives and the handler checks its path.
HttpServe(i) ==
    /\ httpReq[i].pc = "none"
    /\ \A j \in 1..(i - 1) : httpReq[j].pc # "none"
    /\ \E input \in HttpInputs :
          httpReq' = [httpReq EXCEPT ![i] =
              IF input.exactPath
              THEN [@ EXCEPT !.pc = "count", !.input = SetTo(input)]
              ELSE [@ EXCEPT !.pc = "done", !.input = SetTo(input), !.status = 404]]
    /\ UNCHANGED httpMetrics
    /\ HttpFrame

\* http.go:70 / 129, metrics.TotalRequests.Add(1).
HttpCount(i) ==
    /\ httpReq[i].pc = "count"
    /\ httpMetrics' = [httpMetrics EXCEPT !.TotalRequests = @ + 1]
    /\ httpReq' = [httpReq EXCEPT ![i] = [@ EXCEPT !.pc = "params"]]
    /\ HttpFrame

\* http.go:72-100 / 131-160, the url, full_height and parseRequestConfig
\* checks: each failure counts the request as failed and answers 400.
HttpParams(i) ==
    /\ httpReq[i].pc = "params"
    /\ IF httpReq[i].input.val.query = "valid"
       THEN /\ httpReq' = [httpReq EXCEPT ![i] = [@ EXCEPT !.pc = "execute"]]
            /\ UNCHANGED httpMetrics
       ELSE /\ httpMetrics' = [httpMetrics EXCEPT !.FailedRequests = @ + 1]
            /\ httpReq' = Responded(i, 400)
    /\ HttpFrame

\* http.go:103 / 163, executeBrowserRequest returns, or panics: the panic
\* unwinds the handler and net/http recovers it, closing the connection.
HttpExecute(i) ==
    /\ httpReq[i].pc = "execute"
    /\ \E outcome \in ExecOutcomes :
          httpReq' = [httpReq EXCEPT ![i] =
              IF outcome = "panic"
              THEN [@ EXCEPT !.pc = "done", !.outcome = outcome]
              ELSE [@ EXCEPT !.pc = "record", !.outcome = outcome]]
    /\ UNCHANGED httpMetrics
    /\ HttpFrame

\* http.go:107-113 / 167-173, the request is counted as failed or successful.
HttpRecord(i) ==
    /\ httpReq[i].pc = "record"
    /\ IF httpReq[i].outcome = "error"
       THEN /\ httpMetrics' = [httpMetrics EXCEPT !.FailedRequests = @ + 1]
            /\ httpReq' = Responded(i, 500)
       ELSE /\ httpMetrics' = [httpMetrics EXCEPT !.SuccessRequests = @ + 1]
            /\ httpReq' = Responded(i, 200)
    /\ HttpFrame

McpInit ==
    McpStart /\ HijackOff /\ NetOff /\ ConsoleOff /\ ExecOff /\ DomainOff /\ ResizeOff
    /\ FullHeightOff /\ HttpOff

McpNext ==
    \/ McpCall
    \/ \E i \in 1..MaxCalls : CfgLookup(i)
    \/ \E i \in 1..MaxCalls : CfgViewport(i)
    \/ \E i \in 1..MaxCalls : CfgTimeout(i)
    \/ \E i \in 1..MaxCalls : CfgDomains(i)
    \/ \E i \in 1..MaxCalls : CfgCookies(i)
    \/ \E i \in 1..MaxCalls : CfgHeaders(i)
    \/ \E i \in 1..MaxCalls : CfgCreateOrUpdate(i)
    \/ \E i \in 1..MaxCalls : CfgPublish(i)
    \/ \E i \in 1..MaxCalls : CapLookup(i)
    \/ \E i \in 1..MaxCalls : CapReadViewport(i)
    \/ \E i \in 1..MaxCalls : CapReadTimeout(i)
    \/ \E i \in 1..MaxCalls : CapReadDomains(i)
    \/ \E i \in 1..MaxCalls : CapReadHeaders(i)
    \/ \E i \in 1..MaxCalls : CapReadCookies(i)
    \/ \E i \in 1..MaxCalls : CapExecute(i)
    \/ \E i \in 1..MaxCalls : CapUpdateCookies(i)
    \/ \E i \in 1..MaxCalls : CapStoreRequest(i)
    \/ \E i \in 1..MaxCalls : CapAddRequestToHistory(i)

SpecMcp == McpInit /\ [][McpNext]_vars

HttpInit ==
    HttpStart /\ HijackOff /\ NetOff /\ ConsoleOff /\ ExecOff /\ DomainOff /\ ResizeOff
    /\ FullHeightOff /\ McpOff

HttpNext ==
    \/ \E i \in 1..MaxHttpRequests : HttpServe(i)
    \/ \E i \in 1..MaxHttpRequests : HttpCount(i)
    \/ \E i \in 1..MaxHttpRequests : HttpParams(i)
    \/ \E i \in 1..MaxHttpRequests : HttpExecute(i)
    \/ \E i \in 1..MaxHttpRequests : HttpRecord(i)

SpecHttp == HttpInit /\ [][HttpNext]_vars

ExecInit ==
    ExecStart /\ HijackOff /\ NetOff /\ ConsoleOff /\ DomainOff /\ ResizeOff /\ FullHeightOff /\ McpOff
    /\ HttpOff

ExecNext ==
    \/ ExParseRequestConfig
    \/ ExConnect
    \/ ExNewPage
    \/ ExSetupHijack
    \/ ExSetTimeout
    \/ ExTimeoutExpires
    \/ ExSetCookies
    \/ ExLoad
    \/ ExSetViewport
    \/ ExWaitLoad
    \/ ExFullHeight
    \/ ExCookies
    \/ ExScreenshot
    \/ ExResize
    \/ ExHTML
    \/ ExReturn
    \/ ExClose

SpecExec == ExecInit /\ [][ExecNext]_vars

DomainInit ==
    DomainStart /\ HijackOff /\ NetOff /\ ConsoleOff /\ ExecOff /\ ResizeOff /\ FullHeightOff /\ McpOff
    /\ HttpOff

DomainNext == DomainCheck

SpecDomain == DomainInit /\ [][DomainNext]_vars

ResizeInit ==
    ResizeStart /\ HijackOff /\ NetOff /\ ConsoleOff /\ ExecOff /\ DomainOff /\ FullHeightOff /\ McpOff
    /\ HttpOff

ResizeNext ==
    \/ ResizeParse
    \/ ResizeTransform

SpecResize == ResizeInit /\ [][ResizeNext]_vars

FullHeightInit ==
    FullHeightStart /\ HijackOff /\ NetOff /\ ConsoleOff /\ ExecOff /\ DomainOff /\ ResizeOff
    /\ McpOff /\ HttpOff

FullHeightNext ==
    \/ FullHeightMetricsFail
    \/ FullHeightKeep
    \/ FullHeightSet
    \/ FullHeightRelayout

SpecFullHeight == FullHeightInit /\ [][FullHeightNext]_vars

NetInit ==
    NetStart /\ HijackOff /\ ConsoleOff /\ ExecOff /\ DomainOff /\ ResizeOff /\ FullHeightOff /\ McpOff
    /\ HttpOff

NetNext ==
    \/ \E id \in NetIds : EmitSent(id)
    \/ \E id \in NetIds : EmitResponse(id)
    \/ \E id \in NetIds : EmitFailed(id)
    \/ SentStoreTime
    \/ SentStoreInfo
    \/ \E h \in Completers : LoadInfo(h)
    \/ \E h \in Completers : LoadTime(h)
    \/ \E h \in Completers : LockRecords(h)
    \/ \E h \in Completers : AppendRecord(h)
    \/ ReadNetworkRequests
    \/ \E h \in Completers : DeleteInfo(h)
    \/ \E h \in Completers : DeleteTime(h)

SpecNet == NetInit /\ [][NetNext]_vars

\* The three handlers are goroutines (main.go:318, 336, 363) the Go scheduler
\* keeps running: a handler with an event to take or a step to make goes on.
\* The browser's events and the orchestrator's read are under no obligation.
NetFairness ==
    /\ WF_vars(SentStoreTime)
    /\ WF_vars(SentStoreInfo)
    /\ \A h \in Completers :
          /\ WF_vars(LoadInfo(h))
          /\ WF_vars(LoadTime(h))
          /\ WF_vars(LockRecords(h))
          /\ WF_vars(AppendRecord(h))
          /\ WF_vars(DeleteInfo(h))
          /\ WF_vars(DeleteTime(h))

SpecNetFair == NetInit /\ [][NetNext]_vars /\ NetFairness

ConsoleInit ==
    ConsoleStart /\ HijackOff /\ NetOff /\ ExecOff /\ DomainOff /\ ResizeOff /\ FullHeightOff /\ McpOff
    /\ HttpOff

ConsoleNext ==
    \/ EmitConsoleAPI
    \/ EmitException
    \/ EmitLogEntry
    \/ HandleConsoleAPI
    \/ HandleException
    \/ HandleLogEntry

SpecConsole == ConsoleInit /\ [][ConsoleNext]_vars

HijackInit ==
    HijackStart /\ NetOff /\ ConsoleOff /\ ExecOff /\ DomainOff /\ ResizeOff /\ FullHeightOff /\ McpOff
    /\ HttpOff

HijackNext ==
    \E r \in Reqs :
        \/ HijackDeliver(r)
        \/ HijackDecide(r)
        \/ HijackFirstRequest(r)
        \/ HijackFilter(r)

SpecHijack == HijackInit /\ [][HijackNext]_vars

(***************************************************************************)
(* Properties of the interception policy.                                  *)
(***************************************************************************)
Resolved(r) == hjReq[r].pc = "done"

FirstPathRequests == {r \in Reqs : hjReq[r].first}

Rejected(r) ==
    /\ Len(hjConfig.DomainWhitelist) > 0
    /\ ~isDomainWhitelisted(hjReq[r].url, hjConfig.DomainWhitelist)

\* C1: with the exemption enabled, the request that takes the first-request
\* path (the winner of the compare-and-swap) is continued, never failed,
\* whatever the allow-list says about its host.
C1_FirstRequestContinued ==
    \A r \in Reqs :
        (hjConfig.PermitFirstRequest /\ hjReq[r].first /\ Resolved(r))
            => hjReq[r].outcome.kind = "continue"

\* A first request whose host the non-empty allow-list rejects was continued.
C1_Witness ==
    \E r \in Reqs :
        /\ hjConfig.PermitFirstRequest /\ hjReq[r].first /\ Resolved(r)
        /\ Rejected(r)
        /\ hjReq[r].outcome.kind = "continue"

\* C2: at most one request ever takes the first-request path, exactly one
\* does as soon as any handler has passed the test with the exemption
\* enabled, and the flag, once cleared, is never set again.
C2_ExactlyOneFirst ==
    /\ [](/\ Cardinality(FirstPathRequests) <= 1
          /\ (hjConfig.PermitFirstRequest
                /\ \E r \in Reqs : hjReq[r].pc \in {"first", "filter", "done"})
             => Cardinality(FirstPathRequests) = 1
          /\ (FirstPathRequests # {}) => ~firstRequest)
    /\ [][~firstRequest => ~firstRequest']_vars

\* Two handlers in flight at once: the request delivered later won the
\* compare-and-swap, the earlier one goes to the filter.
C2_Witness ==
    \E r1, r2 \in Reqs :
        /\ r2 < r1
        /\ hjReq[r1].pc = "first"
        /\ hjReq[r2].pc = "filter"
        /\ ~firstRequest

\* C3: a request that does not take the first-request path is failed with
\* BlockedByClient iff the allow-list is non-empty and the Domain Matcher
\* rejects its URL; otherwise it is continued.
C3_FilterDecision ==
    \A r \in Reqs :
        (Resolved(r) /\ ~hjReq[r].first)
            => IF Rejected(r)
               THEN hjReq[r].outcome = [kind |-> "fail", reason |-> "BlockedByClient"]
               ELSE hjReq[r].outcome.kind = "continue"

\* Both cases on one allow-list: a.io continued and evil.com blocked, neither
\* request first-exempt.
C3_Witness ==
    \E r1, r2 \in Reqs :
        /\ hjConfig.DomainWhitelist = <<PatA>>
        /\ Resolved(r1) /\ ~hjReq[r1].first /\ hjReq[r1].url = UrlA
        /\ hjReq[r1].outcome.kind = "continue"
        /\ Resolved(r2) /\ ~hjReq[r2].first /\ hjReq[r2].url = UrlEvil
        /\ hjReq[r2].outcome.kind = "fail"

SameName(n1, n2) == Lower(n1) = Lower(n2)

\* C4: a request continued with custom headers configured carries each
\* custom header exactly once, no original header whose name equals a custom
\* name case-insensitively, and every other original entry as often as before.
C4_HeaderMerge ==
    \A r \in Reqs :
        (Resolved(r) /\ hjReq[r].outcome.kind = "continue"
           /\ hjConfig.CustomHeaders # EmptyMap)
        => LET custom == hjConfig.CustomHeaders
               sent   == hjReq[r].outcome.headers
               orig   == ExistingEntries(hjReq[r].header)
           IN  /\ hjReq[r].outcome.setHeaders
               /\ \A k \in DOMAIN custom : CopiesIn(<<k, custom[k]>>, sent) = 1
               /\ \A e \in BagToSet(sent) :
                     (\E k \in DOMAIN custom : SameName(e[1], k))
                        => e[1] \in DOMAIN custom /\ e[2] = custom[e[1]]
               /\ \A e \in BagToSet(orig) :
                     (~\E k \in DOMAIN custom : SameName(e[1], k))
                        => CopiesIn(e, sent) = CopiesIn(e, orig)

(***************************************************************************)
(* Properties of the network event correlator.                             *)
(***************************************************************************)
RecordsOf(id) == {i \in DOMAIN NetworkRequests : NetworkRequests[i].id = id}

\* C5: after one request-sent event for an identifier, response-received
\* and load-failed events for it, however many and however interleaved, add
\* at most one record for it to the finalized list.
C5_FinalizeOnce ==
    \A id \in NetIds : netHist.sent[id] = 1 => Cardinality(RecordsOf(id)) <= 1

\* A completion handler takes an event in this step and finds no record
\* under its identifier.
LookupMiss(h) ==
    /\ netH[h].pc = "idle"
    /\ netQ[h] # <<>>
    /\ netQ'[h] = Tail(netQ[h])
    /\ Head(netQ[h]).id \notin DOMAIN requestInfo

Finalizing(id) ==
    \E h \in Completers : netH[h].pc \in {"deleteInfo", "deleteTime"} /\ netH[h].ev.id = id

\* C7: once a completion handler has moved a record to the finalized list
\* (append and both evictions done), its identifier is in neither in-flight
\* map.
C7_EvictedOnceFinalized ==
    \A i \in DOMAIN NetworkRequests :
        LET id == NetworkRequests[i].id
        IN  ~Finalizing(id) => id \notin DOMAIN requestInfo /\ id \notin DOMAIN requestTimes

(***************************************************************************)
(* Properties of the console collectors.                                   *)
(***************************************************************************)

\* C8: the console list holds its records in the order in which the browser
\* emitted the events, across the console-API, exception and log streams.
C8_EmissionOrder ==
    \A i, j \in DOMAIN ConsoleLogs : i < j => ConsoleLogs[i].n < ConsoleLogs[j].n

(***************************************************************************)
(* Properties of executeBrowserRequest.                                    *)
(***************************************************************************)

\* C9: once the connection has succeeded the browser is closed exactly once
\* by the time the call has ended, however it ends: a response, an error
\* return, an expired timeout, a panic of MustPage or MustSetViewport; and
\* it is never closed twice.
C9_ClosedExactlyOnce ==
    /\ exBrowser.closes <= 1
    /\ (exPc = "done" /\ exBrowser.connected) => exBrowser.closes = 1

\* The timeout expired, MustSetViewport panicked, and the browser was closed.
C9_Witness ==
    /\ exPc = "done"
    /\ exResult.kind = "panic"
    /\ exExpired.passed
    /\ "MustSetViewport" \in exHist.failed
    /\ exBrowser.closes = 1

ArtifactSteps == {"Navigate", "SetDocumentContent", "WaitLoad", "Cookies", "Screenshot", "HTML"}

\* C10: a run in which navigation, the load wait or the retrieval of a
\* requested artifact failed ends with an error and no BrowserResponse.
C10_AllOrNothing ==
    (exPc = "done" /\ exHist.failed \cap ArtifactSteps # {})
        => exResult = [kind |-> "error", response |-> Unset]

\* The calls of a run that reach the browser.
BrowserCalls ==
    {"Connect", "MustPage", "setupRequestHijacking", "SetCookies", "Navigate",
     "SetDocumentContent", "MustSetViewport", "WaitLoad", "adjustViewportForFullHeight",
     "Cookies", "Screenshot", "HTML", "Close"}

\* C11: in the response a run returns, each field is set exactly when its
\* capture flag was set in the request: cookies, HTML, screenshot, content
\* type (with the screenshot), network trace, console log.
C11_FieldsIffFlags ==
    exResult.kind = "response" =>
        LET response == exResult.response.val
        IN  /\ response.Cookies.set <=> exConfig.CaptureCookies
            /\ response.HTML.set <=> exConfig.CaptureHTML
            /\ response.Screenshot.set <=> exConfig.CaptureScreenshot
            /\ (response.ContentType # "") <=> exConfig.CaptureScreenshot
            /\ response.NetworkRequests.set <=> exConfig.CaptureNetwork
            /\ response.ConsoleLogs.set <=> exConfig.CaptureLogs

\* C12: in a run whose resize string parseResizeString rejects, no call
\* reaches the browser: the error comes first.
C12_ResizeErrorFirst ==
    (exConfig.ResizeParam # <<>> /\ ~ResizeParses(exConfig.ResizeParam))
        => \A i \in DOMAIN exHist.calls : exHist.calls[i] \notin BrowserCalls

(***************************************************************************)
(* Properties of the full-height planner.                                  *)
(***************************************************************************)

\* The candidates for the baseline, in order: the configured height, the
\* visual viewport's client height, the layout viewport's client height,
\* the measured content height, and 1.
BaselineCandidates(call) ==
    <<call.before.ViewportHeight,
      IF call.metrics.CSSVisualViewport.set
      THEN Ceil(call.metrics.CSSVisualViewport.val.ClientHeight) ELSE 0,
      IF call.metrics.CSSLayoutViewport.set
      THEN call.metrics.CSSLayoutViewport.val.ClientHeight ELSE 0,
      Ceil(ContentHeight(call.metrics)),
      1>>

FirstPositive(candidates) ==
    candidates[CHOOSE i \in DOMAIN candidates :
                  candidates[i] > 0 /\ \A j \in 1..(i - 1) : candidates[j] <= 0]

\* h <= 10 * m, written so that no product leaves the range of int.
AtMostTenTimes(h, m) == h \div 10 < m \/ (h \div 10 = m /\ h % 10 = 0)

\* C13: whenever the planner calls page.SetViewport, the height H it asks
\* for satisfies minBaseline <= H <= 10 * minBaseline, where minBaseline is
\* the first positive one of the candidates above.
C13_HeightWithinBaseline ==
    \A i \in DOMAIN fhCalls :
        fhCalls[i].issued =>
            LET minBaseline == FirstPositive(BaselineCandidates(fhCalls[i]))
                H           == fhCalls[i].plan.val.height
            IN  /\ minBaseline >= 1
                /\ minBaseline <= H
                /\ AtMostTenTimes(H, minBaseline)

\* A page of 10000 pixels under a configured height of 600: the viewport is
\* set to the cap, 6000.
C13_Witness ==
    \E i \in DOMAIN fhCalls :
        /\ fhCalls[i].issued /\ fhCalls[i].err = ""
        /\ fhCalls[i].before.ViewportHeight = 600
        /\ Ceil(ContentHeight(fhCalls[i].metrics)) = 10000
        /\ fhCalls[i].plan.val.height = 6000
        /\ fhActive = SetTo([w |-> 800, h |-> 6000])

\* C14: a call of the planner that follows a call which set the viewport,
\* with the same layout metrics, does not call page.SetViewport again; and
\* no call of the planner asks for the viewport its config already holds.
C14_SecondCallIdle ==
    /\ \A i \in DOMAIN fhCalls :
          (/\ i + 1 \in DOMAIN fhCalls
           /\ fhCalls[i].issued /\ fhCalls[i].err = ""
           /\ fhCalls[i + 1].metrics = fhCalls[i].metrics)
          => ~fhCalls[i + 1].issued
    /\ \A i \in DOMAIN fhCalls :
          fhCalls[i].issued =>
             <<fhCalls[i].plan.val.width, fhCalls[i].plan.val.height>>
                # <<fhCalls[i].before.ViewportWidth, fhCalls[i].before.ViewportHeight>>

(***************************************************************************)
(* Properties of the Domain Matcher.                                       *)
(***************************************************************************)

\* C15: with the one pattern *.suffix, a host is allowed iff it ends with
\* .suffix and is not the bare suffix.
C15_StarSuffix ==
    \A suffix \in Suffixes :
        (dmResult.set /\ dmPattern = StarPattern(suffix))
            => (dmResult.val <=> (HasSuffix(dmHost, <<".">> \o suffix) /\ dmHost # suffix))

\* *.b was asked about the bare host b and rejected it.
C15_Witness ==
    /\ dmPattern = <<"*", ".", "b">>
    /\ dmHost = <<"b">>
    /\ dmResult = SetTo(FALSE)

\* C16: with the one pattern .D, a host is allowed iff it is D itself or
\* ends with .D.
C16_LeadingDot ==
    \A domain \in Suffixes :
        (dmResult.set /\ dmPattern = DotPattern(domain))
            => (dmResult.val <=> (dmHost = domain \/ HasSuffix(dmHost, <<".">> \o domain)))

\* .b was asked about the host b itself, behind a port, and allowed it.
C16_Witness ==
    /\ dmPattern = <<".", "b">>
    /\ dmHost = <<"b">>
    /\ dmPort
    /\ dmResult = SetTo(TRUE)

(***************************************************************************)
(* Properties of the resize DSL and of the transform.                      *)
(***************************************************************************)
Parsed == rzParsed.set

Accepted == rzParsed.set /\ rzParsed.val.err = ""

Params == rzParsed.val.params.val

Planned == rzPlan.set /\ rzPlan.val.err \notin {"decode failed"}

\* The dimension part of a spec: what is left of it without the percent
\* signs, the crop offsets and the policy suffixes.
DimensionPart(spec) ==
    LET r1 == ReplaceAll(spec, "%")
        r2 == IF Contains(r1, "+") THEN Split(r1, "+")[1]
              ELSE IF Contains(r1, "_") THEN Split(r1, "_")[1] ELSE r1
        r3 == TrimSuffix(r2, <<"!">>)
    IN  IF HasSuffix(r3, <<"#">>) THEN TrimSuffix(r3, <<"#">>) ELSE TrimSuffix(r3, <<"^">>)

IsInteger(part) == part # <<>> /\ ~Atoi(part).err

\* C17: parseResizeString returns an error for "x", "abcxdef" and
\* "100x200x300", and for every spec whose dimension part has both sides
\* empty, a side that is no integer, or not exactly two sides; and what it
\* accepts has a width or a height.
C17_MalformedRejected ==
    Parsed =>
        LET sides == Split(DimensionPart(rzSpec), "x")
        IN  /\ (\/ Len(sides) # 2
                \/ \A i \in DOMAIN sides : sides[i] = <<>>
                \/ \E i \in DOMAIN sides : sides[i] # <<>> /\ ~IsInteger(sides[i]))
               => rzParsed.val.err # ""
            /\ Accepted => (Params.Width # 0 \/ Params.Height # 0)

BothTargetsSet == Planned /\ ~Params.Crop /\ rzPlan.val.target.val.w # 0 /\ rzPlan.val.target.val.h # 0

WidthRatio == Ratio(rzPlan.val.target.val.w, rzSource.w)

HeightRatio == Ratio(rzPlan.val.target.val.h, rzSource.h)

\* C18: with both target dimensions set and the aspect kept, both axes are
\* scaled by one ratio: the smaller of targetWidth/sourceWidth and
\* targetHeight/sourceHeight without center crop, the larger with it.
C18_FitOrFill ==
    (BothTargetsSet /\ Params.KeepAspect) =>
        LET scale == rzPlan.val.scale.val
        IN  /\ scale.h = scale.v
            /\ RatioEq(scale.h, WidthRatio) \/ RatioEq(scale.h, HeightRatio)
            /\ IF Params.AutoCrop
               THEN ~RatioLess(scale.h, WidthRatio) /\ ~RatioLess(scale.h, HeightRatio)
               ELSE ~RatioLess(WidthRatio, scale.h) /\ ~RatioLess(HeightRatio, scale.h)

\* 200x200# on 1000x500: ratio 0.4, scaled to 400x200, cropped to 200x200.
C18_Witness ==
    /\ rzSpec = <<"2", "0", "0", "x", "2", "0", "0", "#">>
    /\ rzSource = [w |-> 1000, h |-> 500]
    /\ Planned /\ rzPlan.val.err = ""
    /\ RatioEq(rzPlan.val.scale.val.h, Ratio(4, 10))
    /\ rzPlan.val.size.val = [w |-> 200, h |-> 200]

\* C19: a center crop that succeeds cuts a window of exactly the target
\* size (the percentage-adjusted size under the percentage flag) out of the
\* scaled image, at offset (floor((scaledWidth - targetWidth) / 2),
\* floor((scaledHeight - targetHeight) / 2)).
C19_CenterCropWindow ==
    (Planned /\ rzPlan.val.err = "" /\ ~Params.Crop /\ Params.AutoCrop) =>
        LET target == rzPlan.val.target.val
            scale  == rzPlan.val.scale.val
            scaled == [w |-> VipsScale(rzSource.w, scale.h), h |-> VipsScale(rzSource.h, scale.v)]
        IN  rzPlan.val.crop = SetTo([left   |-> (scaled.w - target.w) \div 2,
                                     top    |-> (scaled.h - target.h) \div 2,
                                     width  |-> target.w,
                                     height |-> target.h])

\* C20: with force-exact the two axes are scaled by targetWidth/sourceWidth
\* and targetHeight/sourceHeight, each on its own, and the transform fails
\* when one of the two is not positive.
C20_ForceExact ==
    (Planned /\ ~Params.Crop /\ ~Params.KeepAspect) =>
        /\ rzPlan.val.scale.val.h = WidthRatio
        /\ rzPlan.val.scale.val.v = HeightRatio
        /\ (~Positive(WidthRatio) \/ ~Positive(HeightRatio)) => rzPlan.val.err # ""

\* 200x100! on 1000x400: ratios 0.2 and 0.25, output 200x100.
C20_Witness ==
    /\ rzSpec = <<"2", "0", "0", "x", "1", "0", "0", "!">>
    /\ rzSource = [w |-> 1000, h |-> 400]
    /\ Planned /\ rzPlan.val.err = ""
    /\ RatioEq(rzPlan.val.scale.val.h, Ratio(2, 10))
    /\ RatioEq(rzPlan.val.scale.val.v, Ratio(25, 100))
    /\ ~RatioEq(rzPlan.val.scale.val.h, rzPlan.val.scale.val.v)
    /\ rzPlan.val.size.val = [w |-> 200, h |-> 100]

\* The quotient of Go's integer division p / 100: it truncates toward zero.
Hundredth(p) ==
    CHOOSE q \in (0 - 10000)..10000 :
        /\ (p >= 0) => (q >= 0 /\ q * 100 <= p /\ p < (q + 1) * 100)
        /\ (p < 0) => (q <= 0 /\ q * 100 >= p /\ p > (q - 1) * 100)

\* C21: a spec that holds a "%" is parsed as the spec without its "%"
\* characters, with the percentage flag set; and under the flag the target
\* is (sourceWidth * W / 100, sourceHeight * H / 100) in integer division,
\* and the scale ratios are taken from that target.
C21_PercentageTarget ==
    /\ (Parsed /\ Contains(rzSpec, "%")) =>
          LET plain == parseResizeString(ReplaceAll(rzSpec, "%"))
          IN  /\ rzParsed.val.err = plain.err
              /\ Accepted =>
                    Params = [plain.params.val EXCEPT !.Percentage = TRUE]
    /\ (Planned /\ ~Params.Crop /\ Params.Percentage) =>
          LET target == [w |-> Hundredth(rzSource.w * Params.Width),
                         h |-> Hundredth(rzSource.h * Params.Height)]
              scale  == rzPlan.val.scale.val
          IN  /\ rzPlan.val.target = SetTo(target)
              /\ \/ scale.h = Ratio(target.w, rzSource.w)
                 \/ scale.h = Ratio(target.h, rzSource.h)
              /\ \/ scale.v = Ratio(target.w, rzSource.w)
                 \/ scale.v = Ratio(target.h, rzSource.h)

\* 50%x50% on 800x600: target 400x300, output 400x300.
C21_Witness ==
    /\ rzSpec = <<"5", "0", "%", "x", "5", "0", "%">>
    /\ rzSource = [w |-> 800, h |-> 600]
    /\ Planned /\ rzPlan.val.err = ""
    /\ rzPlan.val.target = SetTo([w |-> 400, h |-> 300])
    /\ rzPlan.val.size = SetTo([w |-> 400, h |-> 300])

\* The spec written with the URL-safe characters: "_" for "+", "^" for "#".
UrlSafe(spec) ==
    [i \in DOMAIN spec |-> IF spec[i] = "+" THEN "_"
                           ELSE IF spec[i] = "#" THEN "^" ELSE spec[i]]

\* C22: a spec written with "+" and "#" and the same spec written with "_"
\* and "^" parse to the same result, error or ResizeParams.
C22_UrlSafeSame ==
    (Parsed /\ ~Contains(rzSpec, "_") /\ ~Contains(rzSpec, "^"))
        => parseResizeString(UrlSafe(rzSpec)) = rzParsed.val

\* 200x100#+10+20 was accepted with offsets (10, 20) and center crop, as
\* 200x100^_10_20 is.
C22_Witness ==
    /\ rzSpec = <<"2", "0", "0", "x", "1", "0", "0", "#", "+", "1", "0", "+", "2", "0">>
    /\ Accepted
    /\ Params.Crop /\ Params.CropOffsetX = 10 /\ Params.CropOffsetY = 20
    /\ Params.AutoCrop
    /\ parseResizeString(UrlSafe(rzSpec)) = rzParsed.val
    /\ UrlSafe(rzSpec) # rzSpec

\* The spec without its policy characters.
StripPolicy(spec) == SelectSeq(spec, LAMBDA ch : ch \notin {"!", "#", "^", "%"})

\* The numbers of a spec W x H sep X sep Y, read off the string.
SpecNumbers(spec) ==
    LET plain == StripPolicy(spec)
        parts == Split(plain, IF Contains(plain, "+") THEN "+" ELSE "_")
        sides == Split(parts[1], "x")
        Number(part) == IF part = <<>> THEN 0 ELSE Atoi(part).val
    IN  [left |-> Number(parts[2]), top |-> Number(parts[3]),
         width |-> Number(sides[1]), height |-> Number(sides[2])]

\* C23: a transform with manual crop offsets that succeeds scales nothing
\* and cuts exactly the region (offsetX, offsetY, width, height) out of the
\* source, the numbers as written; the same spec without "!", "#", "^" and
\* "%" cuts the same region.
C23_ManualCropRegion ==
    (Planned /\ Params.Crop) =>
        /\ ~rzPlan.val.scale.set
        /\ rzPlan.val.err = "" =>
              /\ rzPlan.val.crop = SetTo(SpecNumbers(rzSpec))
              /\ rzPlan.val.size = SetTo([w |-> SpecNumbers(rzSpec).width,
                                          h |-> SpecNumbers(rzSpec).height])
        /\ LET plain == parseResizeString(StripPolicy(rzSpec))
           IN  /\ plain.err = ""
               /\ resizeImage(rzSource, plain.params.val).crop = rzPlan.val.crop

\* 50%x100#!+10+20 on 1000x500 cuts (10, 20, 50, 100) and scales nothing.
C23_Witness ==
    /\ rzSpec = <<"5", "0", "%", "x", "1", "0", "0", "#", "!", "+", "1", "0", "+", "2", "0">>
    /\ rzSource = [w |-> 1000, h |-> 500]
    /\ Planned /\ rzPlan.val.err = ""
    /\ Params.Percentage /\ Params.AutoCrop /\ ~Params.KeepAspect
    /\ rzPlan.val.crop = SetTo([left |-> 10, top |-> 20, width |-> 50, height |-> 100])
    /\ ~rzPlan.val.scale.set

\* C30: no spec that parseResizeString accepts sets both force-exact and
\* center crop: "#" or "^" counts only where no "!" was taken off.
C30_OneSuffix ==
    Accepted => ~(~Params.KeepAspect /\ Params.AutoCrop)


(***************************************************************************)
(* Properties of the MCP tools (SpecMcp).                                  *)
(***************************************************************************)
\* The configuration stored under a name; what a new context would start
\* from, for a name without one.
Context(heap, contexts, name) ==
    IF name \in DOMAIN contexts THEN heap[contexts[name]]
    ELSE DefaultBrowserContextConfig(mcpFlags)

\* Call i takes the step.
Stepped(i) == mcpCalls'[i] # mcpCalls[i]

IsCapture(call) == ~IsConfigure(call)

\* The positions of a capture handler after it read the timeout, and after
\* it read all the settings.
AfterTimeoutRead ==
    {"DomainWhitelist", "Headers", "Cookies", "execute", "updateCookies",
     "storeRequest", "addRequestToHistory"}

AfterSettingsRead == {"execute", "updateCookies", "storeRequest", "addRequestToHistory"}

\* C24: the timeout budget of every capture run of an MCP context is 0 or
\* between 1 and 300 seconds, whether the context took it from the startup
\* flags or from configure_browser_context.
C24_TimeoutInRange ==
    \A i \in DOMAIN mcpCalls :
        IsCapture(mcpCalls[i]) /\ mcpCalls[i].pc \in AfterTimeoutRead
            => mcpCalls[i].requestConfig.TimeoutSeconds \in 0..300

\* The field of a context that an argument of configure_browser_context
\* sets, and the value the argument stands for.
FieldOf(config, f) ==
    CASE f = "Viewport" -> config.DefaultViewport
      [] f = "Timeout"  -> config.DefaultTimeout
      [] f = "Domains"  -> config.DomainWhitelist
      [] f = "Cookies"  -> config.Cookies
      [] f = "Headers"  -> config.Headers

ArgValue(args, f) ==
    CASE f = "Viewport" -> [Width  |-> ParseViewportString(args.Viewport.val).Width,
                            Height |-> ParseViewportString(args.Viewport.val).Height]
      [] f = "Timeout"  -> args.Timeout.val
      [] f = "Domains"  -> ParseDomainWhitelist(args.Domains.val).list
      [] f = "Cookies"  -> args.Cookies.val
      [] f = "Headers"  -> args.Headers.val

\* C25: a step of configure_browser_context changes a field of the context
\* it names ("default" for the empty name; the defaults stand for a context
\* not yet created) only if the call gives the field, and then to the value
\* given, the empty value included; the step that handles a given field
\* sets it, and the call ends with its configuration stored under the name.
C25_FieldIffPresent ==
    [][\A i \in DOMAIN mcpCalls :
          Stepped(i) /\ IsConfigure(mcpCalls[i]) =>
              LET call   == mcpCalls[i]
                  name   == ContextNameOf(call.args)
                  before == Context(mcpHeap, mcpContexts, name)
                  after  == Context(mcpHeap', mcpContexts', name)
              IN  /\ \A k \in DOMAIN ConfigureFields :
                        LET f == ConfigureFields[k]
                        IN  /\ FieldOf(after, f) # FieldOf(before, f)
                                => /\ call.args[f].set
                                   /\ FieldOf(after, f) = ArgValue(call.args, f)
                            /\ call.pc = f /\ mcpCalls'[i].pc # "done"
                                => FieldOf(mcpHeap'[call.config], f) = ArgValue(call.args, f)
                  /\ mcpCalls'[i].pc = "done" /\ mcpCalls'[i].err = ""
                        => /\ name \in DOMAIN mcpContexts'
                           /\ mcpContexts'[name] = call.config]_vars

\* C26: a capture call that found its context returns only after it stored
\* its entry and appended the entry's ID to the history; the store step puts
\* exactly the call's entry under its ID, and after the history step the
\* context's LastRequestID is that ID, the last of its history, and names a
\* stored entry with the call's request type and context name.
C26_StoredThenAppended ==
    [][\A i \in DOMAIN mcpCalls :
          Stepped(i) /\ IsCapture(mcpCalls[i]) =>
              LET call  == mcpCalls[i]
                  name  == ContextNameOf(call.args)
                  id    == call.entry.ID
                  after == Context(mcpHeap', mcpContexts', name)
              IN  /\ mcpCalls'[i].pc = "done" /\ call.pc # "lookup"
                        => call.pc = "addRequestToHistory"
                  /\ call.pc = "storeRequest"
                        => /\ mcpRequests' = Store(mcpRequests, id, call.entry)
                           /\ mcpCalls'[i].pc = "addRequestToHistory"
                  /\ call.pc = "addRequestToHistory"
                        => /\ id \in DOMAIN mcpRequests'
                           /\ mcpRequests'[id].RequestType = RequestType(call.args.tool)
                           /\ mcpRequests'[id].ContextName = name
                           /\ after.LastRequestID = id
                           /\ after.RequestHistory # <<>>
                           /\ after.RequestHistory[Len(after.RequestHistory)] = id]_vars

\* C27: the cookie update of a successful capture with update_cookies leaves
\* in the context's cookies every captured cookie and every earlier cookie
\* whose (name, domain) no captured cookie has, and nothing else; no other
\* step of a capture call changes the context's cookies.
C27_CookieMerge ==
    [][\A i \in DOMAIN mcpCalls :
          Stepped(i) /\ IsCapture(mcpCalls[i]) =>
              LET call     == mcpCalls[i]
                  name     == ContextNameOf(call.args)
                  before   == Context(mcpHeap, mcpContexts, name).Cookies
                  after    == Context(mcpHeap', mcpContexts', name).Cookies
                  captured == call.response.Cookies
                  kept     == {c \in before :
                                  \A n \in captured : CookieKey(n) # CookieKey(c)}
              IN  /\ call.pc = "updateCookies" => after = kept \cup captured
                  /\ call.pc = "execute" /\ mcpCalls'[i].pc = "updateCookies"
                        <=> /\ call.pc = "execute"
                            /\ call.args.UpdateCookies
                            /\ mcpCalls'[i].response.err = ""
                            /\ mcpCalls'[i].response.Cookies # {}
                  /\ call.pc # "updateCookies" => after = before]_vars

\* C28: once a capture run has read its settings, they are one version of
\* its context's configuration, whatever configure_browser_context calls
\* and cookie updates ran meanwhile.
C28_SingleVersion ==
    \A i \in DOMAIN mcpCalls :
        IsCapture(mcpCalls[i]) /\ mcpCalls[i].pc \in AfterSettingsRead
            => mcpCalls[i].requestConfig \in mcpHist[mcpCalls[i].config]

\* C29: a configure_browser_context call whose allow-list holds a pattern
\* the glob matcher rejects ends with an error, and no context's allow-list
\* holds such a pattern.
C29_MalformedPatternReported ==
    /\ \A i \in DOMAIN mcpCalls :
          LET call == mcpCalls[i]
          IN  /\ IsConfigure(call)
              /\ call.pc = "done"
              /\ call.args.Domains.set
              /\ \E pattern \in Range(ParseDomainWhitelist(call.args.Domains.val).list) :
                    BadPattern(pattern)
              => call.err # ""
    /\ \A p \in DOMAIN mcpHeap :
          \A pattern \in Range(mcpHeap[p].DomainWhitelist) : ~BadPattern(pattern)

\* C31: in what parseResizeString accepts, every dimension the spec gives
\* (a non-empty side of its dimension part) is greater than zero: zero and
\* negative numbers are rejected.
C31_PositiveDimensions ==
    Accepted =>
        LET dimensions == Split(DimensionPart(rzSpec), "x")
        IN  /\ dimensions[1] # <<>> => Params.Width > 0
            /\ dimensions[2] # <<>> => Params.Height > 0

(***************************************************************************)
(* Further properties of executeBrowserRequest (SpecExec).                 *)
(***************************************************************************)
\* C32: no step of executeBrowserRequest changes the RequestConfig it was
\* handed, the full-height adjustment included: when the call returns, the
\* viewport and every other field are what they were before the call.
C32_ConfigImmutable == [][exConfig' = exConfig]_vars
(***************************************************************************)
(* The orchestrator's read of the correlator's list (SpecNet).             *)
(***************************************************************************)
\* C33: when executeBrowserRequest reads the finalized network list for its
\* response, no event handler is inside an append to that list.
C33_ReadOutsideAppend == netHist.read.taken => netHist.read.appending = {}
(***************************************************************************)
(* Further properties of the interception policy (SpecHijack).             *)
(***************************************************************************)
\* C34: the first-request exemption is enabled exactly when the capture
\* target is a URL; in a session that captures inline HTML no request takes
\* the first-request path, and every resolved request, the first one
\* included, got the decision of the allow-list.
C34_ExemptionOnlyForURL ==
    /\ hjConfig.PermitFirstRequest <=> hjConfig.MainURL # ""
    /\ hjConfig.MainURL = "" =>
          \A r \in Reqs :
              hjReq[r].pc = "done" =>
                  /\ ~hjReq[r].first
                  /\ hjReq[r].outcome = FilterDecision(hjConfig, hjReq[r].url, hjReq[r].header)

\* An inline-HTML session with an allow-list has blocked its very first
\* request.
C34_Witness ==
    /\ hjConfig.MainURL = ""
    /\ Len(hjConfig.DomainWhitelist) > 0
    /\ hjReq[1].pc = "done"
    /\ hjReq[1].outcome = FailBlocked
(***************************************************************************)
(* The order of the stages of executeBrowserRequest (SpecExec).            *)
(***************************************************************************)
\* The places of a call in the history of the run.
Places(names) == {i \in DOMAIN exHist.calls : exHist.calls[i] \in names}

\* Wherever a call of later was made, the call name had succeeded before it.
Precedes(name, later) ==
    \A j \in Places(later) :
        /\ name \notin exHist.failed
        /\ \E i \in Places({name}) : i < j

LoadCalls == {"Navigate", "SetDocumentContent"}

ArtifactCalls == {"Cookies", "Screenshot", "HTML"}

\* C35: the interception policy and the event subscriptions are installed
\* and the configured cookies are set before navigation or HTML injection;
\* cookies, screenshot and HTML are captured only after the load wait, the
\* configured extra wait and the configured full-height adjustment have
\* completed; the resize runs only after the screenshot was taken.
C35_StageOrder ==
    /\ Precedes("setupRequestHijacking", LoadCalls)
    /\ Len(exConfig.Cookies) > 0 => Precedes("SetCookies", LoadCalls)
    /\ Precedes("WaitLoad", ArtifactCalls)
    /\ exConfig.WaitSeconds > 0 => Precedes("Sleep", ArtifactCalls)
    /\ exConfig.FullHeight => Precedes("adjustViewportForFullHeight", ArtifactCalls)
    /\ Precedes("Screenshot", {"resizeImage"})

\* A run with cookies, an extra wait, the full-height adjustment and a
\* resize has made every one of its calls and returned a response.
C35_Witness ==
    /\ exResult.kind = "response"
    /\ Len(exConfig.Cookies) > 0 /\ exConfig.WaitSeconds > 0 /\ exConfig.FullHeight
    /\ Places(LoadCalls) # {}
    /\ ArtifactCalls \subseteq Range(exHist.calls)
    /\ Places({"resizeImage"}) # {}
\* The session's configuration with the debug flag the other way round.
DebugToggled == [hjConfig EXCEPT !.Debug = ~@]

\* C36: the debug flag does not reach the decisions: every resolved request
\* got the decision and the headers that the same handler gives the same
\* request under the same configuration with the debug flag toggled.
C36_DebugNoEffect ==
    \A r \in Reqs :
        hjReq[r].pc = "done" =>
            /\ hjReq[r].first => DebugToggled.PermitFirstRequest
            /\ hjReq[r].outcome =
                   IF hjReq[r].first
                   THEN ContinueWith(hjReq[r].header, DebugToggled.CustomHeaders)
                   ELSE FilterDecision(DebugToggled, hjReq[r].url, hjReq[r].header)

\* A debugging session with an allow-list and custom headers has blocked one
\* request and continued another with its headers.
C36_Witness ==
    /\ hjConfig.Debug
    /\ \E r \in Reqs : hjReq[r].pc = "done" /\ hjReq[r].outcome = FailBlocked
    /\ \E r \in Reqs : /\ hjReq[r].pc = "done"
                       /\ hjReq[r].outcome.kind = "continue"
                       /\ hjReq[r].outcome.setHeaders
\* C37: a request whose handler has returned was resolved by exactly one
\* call, a continue or a fail, and a request whose handler is still running
\* has not been resolved yet.
C37_ResolvedExactlyOnce ==
    \A r \in Reqs :
        /\ hjReq[r].pc = "done" =>
              /\ hjReq[r].calls = 1
              /\ hjReq[r].outcome.kind \in {"continue", "fail"}
        /\ hjReq[r].pc # "done" =>
              /\ hjReq[r].calls = 0
              /\ hjReq[r].outcome = NoOutcome

\* One session has resolved a request on the first-request path and failed
\* a blocked one; the handler of every delivered request has returned.
C37_Witness ==
    /\ \A r \in Reqs : hjReq[r].pc = "done"
    /\ \E r \in Reqs : hjReq[r].first /\ hjReq[r].outcome.kind = "continue"
    /\ \E r \in Reqs : ~hjReq[r].first /\ hjReq[r].outcome = FailBlocked
(***************************************************************************)
(* Progress of the network event correlator (SpecNetFair).                 *)
(***************************************************************************)
\* Both events of a request were delivered to the handlers.
BothDelivered(id) == netHist.sent[id] > 0 /\ id \in netHist.done

\* C38: once a request-sent event and a response-received or load-failed
\* event have been delivered for one identifier, a record of that identifier
\* eventually is in the finalized list, in every interleaving of the three
\* handlers.
C38_EventuallyFinalized ==
    \A id \in NetIds : BothDelivered(id) ~> (RecordsOf(id) # {})
(***************************************************************************)
(* The counters of the HTTP server (SpecHttp).                             *)
(***************************************************************************)
\* The handlers that have counted their request and not yet returned.
HandlersInFlight == {i \in DOMAIN httpReq : httpReq[i].pc \notin {"none", "done"}}

\* C39: sitecap_requests_total is never below the sum of
\* sitecap_requests_success_total and sitecap_requests_failed_total, and
\* equals it whenever no handler is in flight.
C39_MetricsBalance ==
    /\ httpMetrics.TotalRequests >= httpMetrics.SuccessRequests + httpMetrics.FailedRequests
    /\ HandlersInFlight = {} =>
          httpMetrics.TotalRequests = httpMetrics.SuccessRequests + httpMetrics.FailedRequests
(***************************************************************************)
(* The MCP stores (SpecMcp).                                               *)
(***************************************************************************)
\* LastRequestID is the last element of RequestHistory, and it is unset
\* where the history is empty.
LastIsLast(context) ==
    IF context.RequestHistory = <<>> THEN context.LastRequestID = 0
    ELSE context.LastRequestID = context.RequestHistory[Len(context.RequestHistory)]

\* Every context's last request is the end of its history, and the request
\* store holds every request of every history.
StoresConsistent ==
    \A name \in DOMAIN mcpContexts :
        LET context == mcpHeap[mcpContexts[name]]
        IN  /\ LastIsLast(context)
            /\ Range(context.RequestHistory) \subseteq DOMAIN mcpRequests

IsPrefix(s, t) == Len(s) <= Len(t) /\ SubSeq(t, 1, Len(s)) = s

\* A step of a configure_browser_context call leaves every context its
\* history, in its order, and its creation time.
HistoryKept ==
    \A i \in DOMAIN mcpCalls :
        Stepped(i) /\ IsConfigure(mcpCalls[i]) =>
            \A name \in DOMAIN mcpContexts :
                LET before == mcpHeap[mcpContexts[name]]
                    after  == mcpHeap'[mcpContexts'[name]]
                IN  /\ IsPrefix(before.RequestHistory, after.RequestHistory)
                    /\ after.CreatedAt = before.CreatedAt

\* C40: in every state of the stores a context's LastRequestID is the last
\* element of its RequestHistory, every identifier of a history is in the
\* request store, and no step of configure_browser_context removes, reorders
\* or resets a context's history or creation time.
C40_StoreInvariants == [][StoresConsistent' /\ HistoryKept]_vars
====
